---- MODULE Spec2Model ----
(***************************************************************************)
(* The streaming columnar data model of ttm (src/ttm/types.py):            *)
(* CachingFileReader (the line cache), InputFile (the tabular view) and    *)
(* Column (the column accessor), with Python's generators modelled as      *)
(* explicit frames that are advanced one next() at a time.                 *)
(*                                                                         *)
(* A string is a sequence of one-character strings, so that split, join    *)
(* and rstrip do what the Python methods do.                               *)
(***************************************************************************)
EXTENDS Integers, Sequences, FiniteSets, TLC

VARIABLES
    file,       \* the resource: the sequence of raw lines `for line in f` hands out
    reader,     \* the one CachingFileReader all views of the input share
    gens,       \* the generator objects alive: slot -> frame
    subject,    \* the view or column accessor the caller holds
    last        \* what the last call returned or raised

vars == <<file, reader, gens, subject, last>>

-----------------------------------------------------------------------------
(* Bounds of the model *)

\* data rows of a file of Spec
MaxRows == 2
\* generator objects alive at the same time
MaxGens == 2
\* data rows of a file of SpecSeq
MaxSeqRows == 2

-----------------------------------------------------------------------------
(* Strings *)

TAB == "\t"
LF == "\n"
CR == "\r"

\* self._len = None
None == -1

RECURSIVE rstrip(_, _)
\* str.rstrip(ch): every trailing ch is removed
rstrip(s, ch) ==
    IF s # <<>> /\ s[Len(s)] = ch THEN rstrip(SubSeq(s, 1, Len(s) - 1), ch) ELSE s

RECURSIVE SplitAcc(_, _, _)
SplitAcc(s, cur, acc) ==
    IF s = <<>> THEN Append(acc, cur)
    ELSE IF Head(s) = TAB THEN SplitAcc(Tail(s), <<>>, Append(acc, cur))
    ELSE SplitAcc(Tail(s), Append(cur, Head(s)), acc)

\* str.split('\t'): the cells between the tabs, one cell at least
split(s) == SplitAcc(s, <<>>, <<>>)

RECURSIVE join(_)
\* '\t'.join(cells)
join(cells) ==
    IF cells = <<>> THEN <<>>
    ELSE IF Len(cells) = 1 THEN cells[1]
    ELSE cells[1] \o <<TAB>> \o join(Tail(cells))

\* x in list
In(x, list) == \E k \in 1..Len(list) : list[k] = x

\* list.index(x), 1-based; only used when x is in list
index(list, x) == CHOOSE k \in 1..Len(list) : list[k] = x /\ \A j \in 1..(k - 1) : list[j] # x

\* line.rstrip('\n').rstrip('\r')
StripEol(line) == rstrip(rstrip(line, LF), CR)

-----------------------------------------------------------------------------
(* Decoders (map_f) and filter predicates supplied by the stages *)

Digits == {"0", "1"}

DigitVal(c) == IF c = "0" THEN 0 ELSE 1

RECURSIVE JsonItems(_, _)
\* the items of a JSON array of single digits, "d,d,...,d]"; <<-1>> when malformed
JsonItems(s, acc) ==
    IF Len(s) >= 2 /\ s[1] \in Digits /\ s[2] = "]" /\ Len(s) = 2 THEN Append(acc, DigitVal(s[1]))
    ELSE IF Len(s) >= 3 /\ s[1] \in Digits /\ s[2] = ","
         THEN JsonItems(SubSeq(s, 3, Len(s)), Append(acc, DigitVal(s[1])))
    ELSE <<-1>>

\* json.loads on a cell: a digit, or an array of digits; anything else raises
json_loads(cell) ==
    IF Len(cell) = 1 /\ cell[1] \in Digits
        THEN [exc |-> "", val |-> DigitVal(cell[1])]
    ELSE IF cell = <<"[", "]">>
        THEN [exc |-> "", val |-> <<>>]
    ELSE IF Len(cell) >= 3 /\ cell[1] = "["
        THEN LET items == JsonItems(Tail(cell), <<>>)
             IN  IF items = <<-1>> THEN [exc |-> "JSONDecodeError", val |-> <<>>]
                 ELSE [exc |-> "", val |-> items]
    ELSE [exc |-> "JSONDecodeError", val |-> <<>>]

\* self.map_f(cell): the default lambda x: x, or json.loads
map_f(f, cell) ==
    IF f = "json" THEN json_loads(cell) ELSE [exc |-> "", val |-> cell]

\* f(cell) for a filter lambda such as `lambda c: c == split`: the set of raw
\* cells it accepts
pred(f, cell) == cell \in f

-----------------------------------------------------------------------------
(* Objects *)

\* CachingFileReader.__init__; `f` counts the lines taken from the live stream,
\* `yielded` (a history field) keeps what the recording pass has yielded
CachingFileReader(regular) ==
    [ cache          |-> <<>>,
      cache_complete |-> FALSE,
      file_accessed  |-> FALSE,
      _len           |-> None,
      regular_file   |-> regular,
      f              |-> 0,
      yielded        |-> <<>> ]

\* InputFile.__init__ with file_reader given: the view shares the reader
InputFile(strip_columns) == [ strip_columns |-> strip_columns ]

\* strip that returns a view with the exclusion list of the view it is called on
StripNothing(view, column) == InputFile(view.strip_columns)

\* InputFile.strip
strip(view, column) == InputFile(<<column>> \o view.strip_columns)

\* Column.__init__
Column(corpus, column, f, filter_by, filters) ==
    [ corpus |-> corpus, column |-> column, map_f |-> f, _len |-> None,
      filter_by |-> filter_by, filters |-> filters ]

\* InputFile.column
column(view, name, f) == Column(view, name, f, <<>>, <<>>)

\* filter whose accessor takes over the count the accessor it is called on
\* has memoized
FilterKeepsLen(col, name, f) ==
    [Column(col.corpus, col.column, col.map_f, <<name>> \o col.filter_by, <<f>> \o col.filters)
        EXCEPT !._len = col._len]

\* Column.filter
filter(col, name, f) ==
    Column(col.corpus, col.column, col.map_f, <<name>> \o col.filter_by, <<f>> \o col.filters)

-----------------------------------------------------------------------------
(* Generator frames *)

\* no generator in the slot
Free == [ kind |-> "free" ]

\* iter(x): the generator object, of which no line has run yet
Frame(kind, strip_columns, col) ==
    [ kind          |-> kind,
      done          |-> FALSE,
      exc           |-> "",
      out           |-> <<>>,
      \* CachingFileReader.__iter__
      mode          |-> "new",
      i             |-> 0,
      \* InputFile.__iter__
      strip_columns |-> strip_columns,
      vstate        |-> "new",
      header        |-> <<>>,
      \* Column.__iter__
      column        |-> col.column,
      map_f         |-> col.map_f,
      filter_by     |-> col.filter_by,
      filters       |-> col.filters,
      cstate        |-> "new",
      i_col         |-> 0,
      i_filters     |-> <<>> ]

NoColumn == Column(InputFile(<<>>), <<>>, "id", <<>>, <<>>)

IterReader == Frame("reader", <<>>, NoColumn)
IterView(view) == Frame("view", view.strip_columns, NoColumn)
IterColumn(col) == Frame("column", col.corpus.strip_columns, col)

\* Op applied to the value of v, which is computed once however often Op uses it
With(v, Op(_)) == CHOOSE result \in { Op(x) : x \in {v} } : TRUE

\* what one next() on a generator comes to
Yield(R, g, val) == [ R |-> R, g |-> g, tag |-> "yield", val |-> val, exc |-> "" ]
Return(R, g) == [ R |-> R, g |-> g, tag |-> "return", val |-> <<>>, exc |-> "" ]
Raise(R, g, exc) == [ R |-> R, g |-> g, tag |-> "raise", val |-> <<>>, exc |-> exc ]

UsageError == "Exception"

-----------------------------------------------------------------------------
(* CachingFileReader.__iter__ *)

\* the lines of the resource as any pass yields them
Lines == [ k \in 1..Len(file) |-> StripEol(file[k]) ]

\* ReaderResume whose replay takes the lines out of the buffer
ReaderResumeConsumingReplay(R, g) ==
    IF g.mode = "file" THEN
        IF g.i < Len(file)
            THEN Yield(R, [g EXCEPT !.i = g.i + 1], StripEol(file[g.i + 1]))
            ELSE Return(R, g)
    ELSE IF g.mode = "replay" THEN
        IF R.cache # <<>>
            THEN Yield([R EXCEPT !.cache = Tail(R.cache)], [g EXCEPT !.i = g.i + 1],
                       Head(R.cache))
            ELSE Return(R, g)
    ELSE
        IF R.f < Len(file)
            THEN LET line == StripEol(file[R.f + 1])
                 IN  Yield([R EXCEPT !.f = R.f + 1,
                                     !.cache = Append(R.cache, line),
                                     !.yielded = Append(R.yielded, line)],
                           g, line)
            ELSE Return([R EXCEPT !.cache_complete = TRUE], g)

\* ReaderResume with one position in the lines for all passes together,
\* whether they read the file or replay the buffer
ReaderResumeOneCursor(R, g) ==
    IF g.mode = "file" THEN
        IF R.f < Len(file)
            THEN Yield([R EXCEPT !.f = R.f + 1], g, StripEol(file[R.f + 1]))
            ELSE Return(R, g)
    ELSE IF g.mode = "replay" THEN
        IF R.f - Len(file) < Len(R.cache)
            THEN Yield([R EXCEPT !.f = R.f + 1], g, R.cache[R.f - Len(file) + 1])
            ELSE Return(R, g)
    ELSE
        IF R.f < Len(file)
            THEN LET line == StripEol(file[R.f + 1])
                 IN  Yield([R EXCEPT !.f = R.f + 1,
                                     !.cache = Append(R.cache, line),
                                     !.yielded = Append(R.yielded, line)],
                           g, line)
            ELSE Return([R EXCEPT !.cache_complete = TRUE], g)

\* ReaderResume with the replay starting at the second buffered line
ReaderResumeSkipsFirst(R, g) ==
    IF g.mode = "file" THEN
        IF g.i < Len(file)
            THEN Yield(R, [g EXCEPT !.i = g.i + 1], StripEol(file[g.i + 1]))
            ELSE Return(R, g)
    ELSE IF g.mode = "replay" THEN
        IF g.i + 1 < Len(R.cache)
            THEN Yield(R, [g EXCEPT !.i = g.i + 1], R.cache[g.i + 2])
            ELSE Return(R, g)
    ELSE
        IF R.f < Len(file)
            THEN LET line == StripEol(file[R.f + 1])
                 IN  Yield([R EXCEPT !.f = R.f + 1,
                                     !.cache = Append(R.cache, line),
                                     !.yielded = Append(R.yielded, line)],
                           g, line)
            ELSE Return([R EXCEPT !.cache_complete = TRUE], g)

\* ReaderResume with every pass over a regular file reading on from the one
\* handle self.f instead of opening the file again
ReaderResumeSharedHandle(R, g) ==
    IF g.mode = "file" THEN
        IF R.f < Len(file)
            THEN Yield([R EXCEPT !.f = R.f + 1], g, StripEol(file[R.f + 1]))
            ELSE Return(R, g)
    ELSE IF g.mode = "replay" THEN
        IF g.i < Len(R.cache)
            THEN Yield(R, [g EXCEPT !.i = g.i + 1], R.cache[g.i + 1])
            ELSE Return(R, g)
    ELSE
        IF R.f < Len(file)
            THEN LET line == StripEol(file[R.f + 1])
                 IN  Yield([R EXCEPT !.f = R.f + 1,
                                     !.cache = Append(R.cache, line),
                                     !.yielded = Append(R.yielded, line)],
                           g, line)
            ELSE Return([R EXCEPT !.cache_complete = TRUE], g)

\* one resumption of the generator after its first line has run
ReaderResume(R, g) ==
    IF g.mode = "file" THEN
        \* for line in f, over the file this pass opened
        IF g.i < Len(file)
            THEN Yield(R, [g EXCEPT !.i = g.i + 1], StripEol(file[g.i + 1]))
            ELSE Return(R, g)
    ELSE IF g.mode = "replay" THEN
        \* for line in self.cache
        IF g.i < Len(R.cache)
            THEN Yield(R, [g EXCEPT !.i = g.i + 1], R.cache[g.i + 1])
            ELSE Return(R, g)
    ELSE
        \* for line in self.f, the live stream
        IF R.f < Len(file)
            THEN LET line == StripEol(file[R.f + 1])
                 IN  Yield([R EXCEPT !.f = R.f + 1,
                                     !.cache = Append(R.cache, line),
                                     !.yielded = Append(R.yielded, line)],
                           g, line)
            ELSE Return([R EXCEPT !.cache_complete = TRUE], g)

\* ReaderNext that replays what is buffered so far to a pass started while
\* the recording pass is unfinished
ReaderNextReplaysPartial(R, g) ==
    IF g.mode # "new" THEN ReaderResume(R, g)
    ELSE IF R.regular_file THEN ReaderResume(R, [g EXCEPT !.mode = "file"])
    ELSE IF R.cache_complete \/ R.file_accessed
        THEN ReaderResume(R, [g EXCEPT !.mode = "replay"])
    ELSE ReaderResume([R EXCEPT !.file_accessed = TRUE], [g EXCEPT !.mode = "record"])

\* ReaderNext that records a seekable file the way it records a stream
ReaderNextBuffersSeekable(R, g) ==
    IF g.mode # "new" THEN ReaderResume(R, g)
    ELSE IF R.cache_complete THEN ReaderResume(R, [g EXCEPT !.mode = "replay"])
    ELSE IF ~R.file_accessed
        THEN ReaderResume([R EXCEPT !.file_accessed = TRUE], [g EXCEPT !.mode = "record"])
    ELSE Raise(R, [g EXCEPT !.mode = "refused"], UsageError)

\* ReaderNext without the refusal: a pass started while the recording pass is
\* unfinished reads the live stream as well
ReaderNextNoRefusal(R, g) ==
    IF g.mode # "new" THEN ReaderResume(R, g)
    ELSE IF R.regular_file THEN ReaderResume(R, [g EXCEPT !.mode = "file"])
    ELSE IF R.cache_complete THEN ReaderResume(R, [g EXCEPT !.mode = "replay"])
    ELSE ReaderResume([R EXCEPT !.file_accessed = TRUE], [g EXCEPT !.mode = "record"])

\* next() on a generator of CachingFileReader.__iter__
ReaderNext(R, g) ==
    IF g.mode # "new" THEN ReaderResume(R, g)
    ELSE IF R.regular_file THEN ReaderResume(R, [g EXCEPT !.mode = "file"])
    ELSE IF R.cache_complete THEN ReaderResume(R, [g EXCEPT !.mode = "replay"])
    ELSE IF ~R.file_accessed
        THEN ReaderResume([R EXCEPT !.file_accessed = TRUE], [g EXCEPT !.mode = "record"])
    ELSE Raise(R, [g EXCEPT !.mode = "refused"], UsageError)

-----------------------------------------------------------------------------
(* InputFile.__iter__ *)

RECURSIVE KeepFromFirst(_, _, _, _)
\* KeepFrom that compares with strip_columns[0] alone
KeepFromFirst(line, header, strip_columns, i) ==
    IF i > Len(line) THEN <<>>
    ELSE IF header[i] = strip_columns[1] THEN KeepFromFirst(line, header, strip_columns, i + 1)
    ELSE <<line[i]>> \o KeepFromFirst(line, header, strip_columns, i + 1)

RECURSIVE KeepFrom(_, _, _, _)
\* [ line[i] for i in range(len(line)) if header[i] not in strip_columns ],
\* from position i on; only used when the line is no longer than the header
KeepFrom(line, header, strip_columns, i) ==
    IF i > Len(line) THEN <<>>
    ELSE IF In(header[i], strip_columns) THEN KeepFrom(line, header, strip_columns, i + 1)
    ELSE <<line[i]>> \o KeepFrom(line, header, strip_columns, i + 1)

\* the projection of one split line, or IndexError for header[i] past the header
Project(R, g, line, header) ==
    IF Len(line) > Len(header) THEN Raise(R, g, "IndexError")
    ELSE Yield(R, g, join(KeepFrom(line, header, g.strip_columns, 1)))

\* ViewNext that yields the header line as it was read
ViewNextRawHeader(R, g) ==
    IF g.strip_columns = <<>> THEN ReaderNext(R, g)
    ELSE With(ReaderNext(R, g), LAMBDA r :
             IF g.vstate = "new" THEN
                 IF r.tag = "return" THEN Raise(r.R, r.g, "ExpectedRuntimeError")
                 ELSE IF r.tag = "raise" THEN r
                 ELSE Yield(r.R, [r.g EXCEPT !.vstate = "rows", !.header = split(r.val)],
                            r.val)
             ELSE IF r.tag # "yield" THEN r
             ELSE Project(r.R, r.g, split(r.val), g.header))

\* ViewNext with the header of a stripped view taken from the live stream
\* itself, past the line cache
ViewNextPastCache(R, g) ==
    IF g.strip_columns = <<>> THEN ReaderNext(R, g)
    ELSE IF g.vstate = "new" /\ ~R.regular_file /\ ~R.cache_complete THEN
        IF R.f < Len(file)
            THEN With(split(StripEol(file[R.f + 1])), LAMBDA header :
                     Project([R EXCEPT !.f = R.f + 1],
                             [g EXCEPT !.vstate = "rows", !.header = header],
                             header, header))
            ELSE Raise(R, g, "ExpectedRuntimeError")
    ELSE With(ReaderNext(R, g), LAMBDA r :
             IF g.vstate = "new" THEN
                 IF r.tag = "return" THEN Raise(r.R, r.g, "ExpectedRuntimeError")
                 ELSE IF r.tag = "raise" THEN r
                 ELSE With(split(r.val), LAMBDA header :
                          Project(r.R, [r.g EXCEPT !.vstate = "rows", !.header = header],
                                  header, header))
             ELSE IF r.tag # "yield" THEN r
             ELSE Project(r.R, r.g, split(r.val), g.header))

\* next() on a generator of InputFile.__iter__
ViewNext(R, g) ==
    IF g.strip_columns = <<>> THEN ReaderNext(R, g)
    ELSE With(ReaderNext(R, g), LAMBDA r :
             IF g.vstate = "new" THEN
                 IF r.tag = "return" THEN Raise(r.R, r.g, "ExpectedRuntimeError")
                 ELSE IF r.tag = "raise" THEN r
                 ELSE With(split(r.val), LAMBDA header :
                          Project(r.R, [r.g EXCEPT !.vstate = "rows", !.header = header],
                                  header, header))
             ELSE IF r.tag # "yield" THEN r
             ELSE Project(r.R, r.g, split(r.val), g.header))

-----------------------------------------------------------------------------
(* Column.__iter__ *)

\* Passes that asks the first filter alone
PassesFirstOnly(line, filters, i_filters, j) ==
    IF j > Len(filters) THEN "yes"
    ELSE IF i_filters[j] > Len(line) THEN "IndexError"
    ELSE IF ~pred(filters[j], line[i_filters[j]]) THEN "no"
    ELSE "yes"

RECURSIVE Passes(_, _, _, _)
\* the loop over self.filters for one line: "yes", "no" (break), or
\* "IndexError" for a line too short for a filter column
Passes(line, filters, i_filters, j) ==
    IF j > Len(filters) THEN "yes"
    ELSE IF i_filters[j] > Len(line) THEN "IndexError"
    ELSE IF ~pred(filters[j], line[i_filters[j]]) THEN "no"
    ELSE Passes(line, filters, i_filters, j + 1)

RECURSIVE ColumnRows(_, _)
\* for line in lines: ... yield self.map_f(line[i_col])
ColumnRows(R, g) ==
    With(ViewNext(R, g), LAMBDA r :
        IF r.tag # "yield" THEN r
        ELSE With(split(r.val), LAMBDA line :
            With(Passes(line, g.filters, g.i_filters, 1), LAMBDA p :
                IF p = "IndexError" THEN Raise(r.R, r.g, "IndexError")
                ELSE IF p = "no" THEN ColumnRows(r.R, r.g)
                ELSE IF g.i_col > Len(line) THEN Raise(r.R, r.g, "IndexError")
                ELSE With(map_f(g.map_f, line[g.i_col]), LAMBDA v :
                         IF v.exc # "" THEN Raise(r.R, r.g, v.exc)
                         ELSE Yield(r.R, r.g, v.val)))))

\* ColumnNext that takes the header line for the first row
ColumnNextKeepsHeader(R, g) ==
    IF g.cstate # "new" THEN ColumnRows(R, g)
    ELSE With(ViewNext(R, g), LAMBDA r :
        IF r.tag = "return" THEN Raise(r.R, r.g, "ExpectedRuntimeError")
        ELSE IF r.tag = "raise" THEN r
        ELSE With(split(r.val), LAMBDA header :
            IF ~In(g.column, header) THEN Raise(r.R, r.g, "ColumnNotFound")
            ELSE IF \E j \in 1..Len(g.filter_by) : ~In(g.filter_by[j], header)
                THEN Raise(r.R, r.g, "ColumnNotFound")
            ELSE With(map_f(g.map_f, g.column), LAMBDA v :
                     IF v.exc # "" THEN Raise(r.R, r.g, v.exc)
                     ELSE Yield(r.R,
                              [r.g EXCEPT !.cstate = "rows",
                                          !.i_col = index(header, g.column),
                                          !.i_filters = [ j \in 1..Len(g.filter_by) |->
                                                            index(header, g.filter_by[j]) ]],
                              v.val))))

\* ColumnNext without the two membership tests: header.index() is what finds
\* a name missing
ColumnNextUnchecked(R, g) ==
    IF g.cstate # "new" THEN ColumnRows(R, g)
    ELSE With(ViewNext(R, g), LAMBDA r :
        IF r.tag = "return" THEN Raise(r.R, r.g, "ExpectedRuntimeError")
        ELSE IF r.tag = "raise" THEN r
        ELSE With(split(r.val), LAMBDA header :
            IF ~In(g.column, header) THEN Raise(r.R, r.g, "ValueError")
            ELSE IF \E j \in 1..Len(g.filter_by) : ~In(g.filter_by[j], header)
                THEN Raise(r.R, r.g, "ValueError")
            ELSE ColumnRows(r.R,
                     [r.g EXCEPT !.cstate = "rows",
                                 !.i_col = index(header, g.column),
                                 !.i_filters = [ j \in 1..Len(g.filter_by) |->
                                                   index(header, g.filter_by[j]) ]])))

\* next() on a generator of Column.__iter__
ColumnNext(R, g) ==
    IF g.cstate # "new" THEN ColumnRows(R, g)
    ELSE With(ViewNext(R, g), LAMBDA r :
        IF r.tag = "return" THEN Raise(r.R, r.g, "ExpectedRuntimeError")
        ELSE IF r.tag = "raise" THEN r
        ELSE With(split(r.val), LAMBDA header :
            IF ~In(g.column, header) THEN Raise(r.R, r.g, "ColumnNotFound")
            ELSE IF \E j \in 1..Len(g.filter_by) : ~In(g.filter_by[j], header)
                THEN Raise(r.R, r.g, "ColumnNotFound")
            ELSE ColumnRows(r.R,
                     [r.g EXCEPT !.cstate = "rows",
                                 !.i_col = index(header, g.column),
                                 !.i_filters = [ j \in 1..Len(g.filter_by) |->
                                                   index(header, g.filter_by[j]) ]])))

-----------------------------------------------------------------------------
(* Driving a generator *)

\* g.kind says which generator function the frame belongs to
FrameNext(R, g) ==
    IF g.kind = "reader" THEN ReaderNext(R, g)
    ELSE IF g.kind = "view" THEN ViewNext(R, g)
    ELSE ColumnNext(R, g)

\* next(g); the frame keeps what came of it
GenNext(R, g) ==
    With(FrameNext(R, g), LAMBDA r :
        IF r.tag = "yield" THEN [r EXCEPT !.g.out = Append(r.g.out, r.val)]
        ELSE [r EXCEPT !.g.done = TRUE, !.g.exc = r.exc])

RECURSIVE Drain(_, _)
\* a loop that takes everything the generator yields (list(g), sum(1 for _ in g))
Drain(R, g) ==
    With(GenNext(R, g), LAMBDA r :
        IF r.tag = "yield" THEN Drain(r.R, r.g) ELSE r)

\* ReaderLen that memoizes the lines buffered so far when the pass is refused
ReaderLenMemoOnRefusal(R) ==
    IF R._len = None
        THEN With(Drain(R, IterReader), LAMBDA r :
                 IF r.exc # "" THEN [ R |-> [r.R EXCEPT !._len = Len(r.R.cache)], exc |-> r.exc,
                                      val |-> None, passes |-> 1 ]
                 ELSE [ R |-> [r.R EXCEPT !._len = Len(r.g.out)], exc |-> "",
                        val |-> Len(r.g.out), passes |-> 1 ])
        ELSE [ R |-> R, exc |-> "", val |-> R._len, passes |-> 0 ]

\* ReaderLen that counts what is buffered when the recording pass is unfinished
ReaderLenOfBuffer(R) ==
    IF R._len # None THEN [ R |-> R, exc |-> "", val |-> R._len, passes |-> 0 ]
    ELSE IF ~R.regular_file /\ R.file_accessed /\ ~R.cache_complete
        THEN [ R |-> R, exc |-> "", val |-> Len(R.cache), passes |-> 0 ]
    ELSE With(Drain(R, IterReader), LAMBDA r :
             IF r.exc # "" THEN [ R |-> r.R, exc |-> r.exc, val |-> None, passes |-> 1 ]
             ELSE [ R |-> [r.R EXCEPT !._len = Len(r.g.out)], exc |-> "",
                    val |-> Len(r.g.out), passes |-> 1 ])

\* ReaderLen that takes the first line only instead of the whole pass
ReaderLenFirstOnly(R) ==
    IF R._len = None
        THEN With(GenNext(R, IterReader), LAMBDA r :
                 IF r.exc # "" THEN [ R |-> r.R, exc |-> r.exc, val |-> None, passes |-> 1 ]
                 ELSE [ R |-> [r.R EXCEPT !._len = Len(r.g.out)], exc |-> "",
                        val |-> Len(r.g.out), passes |-> 1 ])
        ELSE [ R |-> R, exc |-> "", val |-> R._len, passes |-> 0 ]

\* CachingFileReader.__len__
ReaderLen(R) ==
    IF R._len = None
        THEN With(Drain(R, IterReader), LAMBDA r :
                 IF r.exc # "" THEN [ R |-> r.R, exc |-> r.exc, val |-> None, passes |-> 1 ]
                 ELSE [ R |-> [r.R EXCEPT !._len = Len(r.g.out)], exc |-> "",
                        val |-> Len(r.g.out), passes |-> 1 ])
        ELSE [ R |-> R, exc |-> "", val |-> R._len, passes |-> 0 ]

\* ViewLen that leaves the header line out of the count
ViewLenWithoutHeader(R, view) ==
    With(ReaderLen(R), LAMBDA r :
        IF r.exc = "" /\ r.val > 0 THEN [r EXCEPT !.val = r.val - 1] ELSE r)

\* InputFile.__len__
ViewLen(R, view) == ReaderLen(R)

\* CachingFileReader.ensure_loaded, InputFile.ensure_loaded
ensure_loaded(R) == [ReaderLen(R) EXCEPT !.val = None]

-----------------------------------------------------------------------------
(* Column.__len__, peek and the matrix methods *)

\* what a method of a column accessor comes to: the reader and the accessor
\* after it, what it raised, the number and the value it returned
Returned(R, col, val, out, passes) ==
    [ R |-> R, col |-> col, exc |-> "", val |-> val, out |-> out, passes |-> passes ]
Raised(R, col, exc, passes) ==
    [ R |-> R, col |-> col, exc |-> exc, val |-> None, out |-> <<>>, passes |-> passes ]

\* ColumnLen that counts on every call and keeps nothing
ColumnLenNoMemo(R, col) ==
    With(Drain(R, IterColumn(col)), LAMBDA r :
        IF r.exc # "" THEN Raised(r.R, col, r.exc, 1)
        ELSE Returned(r.R, col, Len(r.g.out), <<>>, 1))

\* Column.__len__
ColumnLen(R, col) ==
    IF col._len = None
        THEN With(Drain(R, IterColumn(col)), LAMBDA r :
                 IF r.exc # "" THEN Raised(r.R, col, r.exc, 1)
                 ELSE Returned(r.R, [col EXCEPT !._len = Len(r.g.out)], Len(r.g.out), <<>>, 1))
        ELSE Returned(R, col, col._len, <<>>, 0)

\* peek that takes the first value without loading the resource first
PeekWithoutLoad(R, col) ==
    With(GenNext(R, IterColumn(col)), LAMBDA r :
        IF r.tag = "yield" THEN Returned(r.R, col, None, <<r.val>>, 0)
        ELSE IF r.tag = "return" THEN Raised(r.R, col, "StopIteration", 0)
        ELSE Raised(r.R, col, r.exc, 0))

\* Column.peek: ensure_loaded(), then the first next() of a new iteration
peek(R, col) ==
    With(ensure_loaded(R), LAMBDA e :
        IF e.exc # "" THEN Raised(e.R, col, e.exc, e.passes)
        ELSE With(GenNext(e.R, IterColumn(col)), LAMBDA r :
                 IF r.tag = "yield" THEN Returned(r.R, col, None, <<r.val>>, e.passes)
                 ELSE IF r.tag = "return" THEN Raised(r.R, col, "StopIteration", e.passes)
                 ELSE Raised(r.R, col, r.exc, e.passes)))

\* for _, row in zip(range(10), self)
SampleRows == 10

RECURSIVE Take(_, _, _)
\* the first n next() of a generator, or all of them if it ends before
Take(R, g, n) ==
    IF n = 0 THEN Return(R, g)
    ELSE With(GenNext(R, g), LAMBDA r :
             IF r.tag = "yield" THEN Take(r.R, r.g, n - 1) ELSE r)

RECURSIVE Entries(_)
\* entries += len(row), over the rows sampled
Entries(rows) == IF rows = <<>> THEN 0 ELSE Len(Head(rows)) + Entries(Tail(rows))

RECURSIVE Zeros(_)
\* zeros += sum((1 for cell in row if cell == 0)), over the rows sampled
Zeros(rows) ==
    IF rows = <<>> THEN 0
    ELSE Len(SelectSeq(Head(rows), LAMBDA cell : cell = 0)) + Zeros(Tail(rows))

\* the matrix a method returns: its encoding, its shape and its content
Matrix(enc, n_rows, n_cols, data) ==
    [ enc |-> enc, n_rows |-> n_rows, n_cols |-> n_cols, data |-> data ]

\* dtype = type(self.peek()[0]) when no dtype is given
DType(R, col, dtype) ==
    IF dtype # "None" THEN Returned(R, col, None, <<dtype>>, 0)
    ELSE With(peek(R, col), LAMBDA p :
             IF p.exc # "" THEN p
             ELSE IF p.out[1] = <<>> THEN Raised(p.R, col, "IndexError", 0)
             ELSE Returned(p.R, col, None, <<"int">>, 0))

\* m[i] = v for every row of a (n_rows, n_cols) array: numpy refuses a row
\* of another length
DenseRows(R, col, n_rows, n_cols) ==
    With(Drain(R, IterColumn(col)), LAMBDA d :
        IF d.exc # "" THEN Raised(d.R, col, d.exc, 1)
        ELSE IF \E i \in 1..Len(d.g.out) : Len(d.g.out[i]) # n_cols
            THEN Raised(d.R, col, "ValueError", 1)
        ELSE IF Len(d.g.out) > n_rows THEN Raised(d.R, col, "IndexError", 1)
        ELSE Returned(d.R, col, n_rows, <<Matrix("dense", n_rows, n_cols, d.g.out)>>, 1))

\* dense_matrix without the test of len(self)
DenseMatrixUnchecked(R, col, dtype) ==
    With(ColumnLen(R, col), LAMBDA n :
        IF n.exc # "" THEN n
        ELSE With(peek(n.R, n.col), LAMBDA p :
            IF p.exc # "" THEN p
            ELSE With(DType(p.R, p.col, dtype), LAMBDA t :
                IF t.exc # "" THEN t
                ELSE DenseRows(t.R, t.col, n.val, Len(p.out[1])))))

\* Column.dense_matrix
dense_matrix(R, col, dtype) ==
    With(ColumnLen(R, col), LAMBDA n :
        IF n.exc # "" THEN n
        ELSE IF n.val = 0 THEN Raised(n.R, n.col, "EmptyColumnError", n.passes)
        ELSE With(peek(n.R, n.col), LAMBDA p :
            IF p.exc # "" THEN p
            ELSE With(DType(p.R, p.col, dtype), LAMBDA t :
                IF t.exc # "" THEN t
                ELSE DenseRows(t.R, t.col, n.val, Len(p.out[1])))))

RECURSIVE Triples(_, _)
\* row, col and data of the cells that are not 0, from row i on
Triples(rows, i) ==
    IF i > Len(rows) THEN <<>>
    ELSE SelectSeq([ j \in 1..Len(rows[i]) |-> <<i - 1, j - 1, rows[i][j]>> ],
                   LAMBDA t : t[3] # 0)
         \o Triples(rows, i + 1)

\* csr_matrix((data, (row, col)), shape): scipy refuses an index outside shape
CsrMatrix(R, col, data, n_rows, n_cols) ==
    IF \E k \in 1..Len(data) : data[k][1] >= n_rows \/ data[k][2] >= n_cols
        THEN Raised(R, col, "ValueError", 1)
        ELSE Returned(R, col, n_rows, <<Matrix("sparse", n_rows, n_cols, data)>>, 1)

\* Column.sparse_matrix
sparse_matrix(R, col, dtype) ==
    With(ColumnLen(R, col), LAMBDA n :
        IF n.exc # "" THEN n
        ELSE IF n.val = 0 THEN Raised(n.R, n.col, "EmptyColumnError", n.passes)
        ELSE With(Drain(n.R, IterColumn(n.col)), LAMBDA d :
            IF d.exc # "" THEN Raised(d.R, n.col, d.exc, 1)
            ELSE With(peek(d.R, n.col), LAMBDA p :
                IF p.exc # "" THEN p
                ELSE With(DType(p.R, p.col, dtype), LAMBDA t :
                    IF t.exc # "" THEN t
                    ELSE CsrMatrix(t.R, t.col, Triples(d.g.out, 1), n.val, Len(p.out[1]))))))

\* matrix that samples every row
MatrixSampleAll(R, col, dtype) ==
    With(ColumnLen(R, col), LAMBDA n :
        IF n.exc # "" THEN n
        ELSE IF n.val = 0 THEN Raised(n.R, n.col, "EmptyColumnError", n.passes)
        ELSE With(Drain(n.R, IterColumn(n.col)), LAMBDA s :
            IF s.exc # "" THEN Raised(s.R, n.col, s.exc, 1)
            ELSE IF Entries(s.g.out) = 0 THEN Raised(s.R, n.col, "ZeroDivisionError", 1)
            ELSE IF 2 * Zeros(s.g.out) > Entries(s.g.out)
                THEN sparse_matrix(s.R, n.col, dtype)
                ELSE dense_matrix(s.R, n.col, dtype)))

\* Column.matrix
matrix(R, col, dtype) ==
    With(ColumnLen(R, col), LAMBDA n :
        IF n.exc # "" THEN n
        ELSE IF n.val = 0 THEN Raised(n.R, n.col, "EmptyColumnError", n.passes)
        ELSE With(Take(n.R, IterColumn(n.col), SampleRows), LAMBDA s :
            IF s.exc # "" THEN Raised(s.R, n.col, s.exc, 1)
            ELSE IF Entries(s.g.out) = 0 THEN Raised(s.R, n.col, "ZeroDivisionError", 1)
            ELSE IF 2 * Zeros(s.g.out) > Entries(s.g.out)
                THEN sparse_matrix(s.R, n.col, dtype)
                ELSE dense_matrix(s.R, n.col, dtype)))

-----------------------------------------------------------------------------
(* Inputs *)

\* column names and raw data cells
Names == { <<"x">>, <<"y">>, <<"z">> }
DataCells == { <<"0">>, <<"1">> }
Eols == { <<LF>>, <<CR, LF>> }

\* a table as text: each line's cells joined by tabs, and the line terminator
Raw(table, eol) == [ k \in 1..Len(table) |-> join(table[k]) \o eol ]

\* the empty table, and the tables of a header and up to n rows drawn from rows
Tables(header, rows, n) ==
    { <<>> } \cup { <<header>> \o body : body \in UNION { [1..k -> rows] : k \in 0..n } }

\* rows with a cell for every column of the header
FullRows(header) == [1..Len(header) -> DataCells]

\* the view cli() opens on the input
Root == InputFile(<<>>)

\* the table of the interleaved specifications: two columns, and rows of which
\* a filter on y = 1 keeps one and drops the other
Header2 == << <<"x">>, <<"y">> >>
Rows2 == { << <<"0">>, <<"1">> >>, << <<"1">>, <<"0">> >> }

\* the views and column accessors the interleaved specification iterates
Stripped == strip(Root, <<"y">>)
Views == { Root, Stripped }
Columns ==
    { filter(column(Root, <<"x">>, "json"), <<"y">>, { <<"1">> }),
      column(Stripped, <<"y">>, "id") }

Idle == [ op |-> "none", arg |-> <<>>, exc |-> "", val |-> None, out |-> <<>>, passes |-> 0 ]

Start(table, eol, regular, held) ==
    /\ file = Raw(table, eol)
    /\ reader = CachingFileReader(regular)
    /\ gens = [ i \in 1..MaxGens |-> Free ]
    /\ subject = held
    /\ last = Idle

\* every table of up to MaxRows rows, under either line terminator
InitReader ==
    \E table \in Tables(Header2, Rows2, MaxRows), eol \in Eols, regular \in BOOLEAN :
        Start(table, eol, regular, Root)

\* the row at position k of the one table whose first lines the interleaved
\* specification reads: the filter on y = 1 keeps every other row
RowAt(k) == IF k % 2 = 1 THEN << <<"0">>, <<"1">> >> ELSE << <<"1">>, <<"0">> >>

Prefixes == { <<>> } \cup { <<Header2>> \o [ k \in 1..n |-> RowAt(k) ] : n \in 0..MaxRows }

Init ==
    \E table \in Prefixes, eol \in Eols, regular \in BOOLEAN :
        Start(table, eol, regular, Root)

-----------------------------------------------------------------------------
(* Operations *)

\* iter(reader)
IterateReader(i) ==
    /\ gens[i] = Free
    /\ gens' = [gens EXCEPT ![i] = IterReader]
    /\ last' = Idle
    /\ UNCHANGED <<file, reader, subject>>

\* iter(view)
IterateView(i, view) ==
    /\ gens[i] = Free
    /\ gens' = [gens EXCEPT ![i] = IterView(view)]
    /\ last' = Idle
    /\ UNCHANGED <<file, reader, subject>>

\* iter(col)
IterateColumn(i, col) ==
    /\ gens[i] = Free
    /\ gens' = [gens EXCEPT ![i] = IterColumn(col)]
    /\ last' = Idle
    /\ UNCHANGED <<file, reader, subject>>

\* next(g) on a generator that has neither returned nor raised
Advance(i) ==
    /\ gens[i] # Free
    /\ ~gens[i].done
    /\ \E r \in { GenNext(reader, gens[i]) } :
           /\ reader' = r.R
           /\ gens' = [gens EXCEPT ![i] = r.g]
    /\ last' = Idle
    /\ UNCHANGED <<file, subject>>

\* the generator object is dropped, wherever it stands
Discard(i) ==
    /\ gens[i] # Free
    /\ gens' = [gens EXCEPT ![i] = Free]
    /\ last' = Idle
    /\ UNCHANGED <<file, reader, subject>>

\* len(file_reader)
Length ==
    /\ \E r \in { ReaderLen(reader) } :
           /\ reader' = r.R
           /\ last' = [Idle EXCEPT !.op = "len", !.exc = r.exc, !.val = r.val,
                                   !.passes = r.passes]
    /\ UNCHANGED <<file, gens, subject>>

\* len(view)
ViewLength(view) ==
    /\ \E r \in { ViewLen(reader, view) } :
           /\ reader' = r.R
           /\ last' = [Idle EXCEPT !.op = "view_len", !.arg = view.strip_columns,
                                   !.exc = r.exc, !.val = r.val, !.passes = r.passes]
    /\ UNCHANGED <<file, gens, subject>>

\* ensure_loaded() on the reader or a view
EnsureLoaded ==
    /\ \E r \in { ensure_loaded(reader) } :
           /\ reader' = r.R
           /\ last' = [Idle EXCEPT !.op = "ensure_loaded", !.exc = r.exc,
                                   !.passes = r.passes]
    /\ UNCHANGED <<file, gens, subject>>

\* generators over the line cache alone
NextReader ==
    \/ \E i \in 1..MaxGens : IterateReader(i)
    \/ \E i \in 1..MaxGens : Advance(i)
    \/ \E i \in 1..MaxGens : Discard(i)
    \/ Length
    \/ \E v \in Views : ViewLength(v)
    \/ EnsureLoaded

SpecReader == InitReader /\ [][NextReader]_vars

\* generators over the line cache, a view and column accessors, interleaved
Next ==
    \/ \E i \in 1..MaxGens, v \in Views : IterateView(i, v)
    \/ \E i \in 1..MaxGens, c \in Columns : IterateColumn(i, c)
    \/ \E i \in 1..MaxGens : Advance(i)
    \/ \E i \in 1..MaxGens : Discard(i)
    \/ Length
    \/ EnsureLoaded

Spec == Init /\ [][Next]_vars

-----------------------------------------------------------------------------------------------------------------------------------------------------
(* One pass after the other: whole iterations of one view or column accessor
   over a wider table *)

Header3 == << <<"x">>, <<"y">>, <<"z">> >>

\* rows with a cell for every column: every pair of values of y and z occurs
Rows3 ==
    { << <<"0">>, <<"1">>, <<"1">> >>, << <<"1">>, <<"1">>, <<"0">> >>,
      << <<"1">>, <<"0">>, <<"1">> >>, << <<"0">>, <<"0">>, <<"0">> >> }

\* a row that lacks cells and a row that has one too many
ShortRow == << <<"1">> >>
LongRow == << <<"1">>, <<"1">>, <<"1">>, <<"1">> >>

\* strip() once and twice on the view of the input; "w" names no column
SeqViews ==
    { Root }
    \cup { strip(Root, a) : a \in Names \cup { <<"w">> } }
    \cup { strip(strip(Root, a), b) : a \in Names, b \in Names }

Preds == { { <<"0">> }, { <<"1">> } }

\* column() on the view and on a stripped view, and filter() once and twice
SeqColumns ==
    { column(v, n, f) : v \in { Root, strip(Root, <<"z">>) }, n \in { <<"x">>, <<"z">> },
                        f \in { "id", "json" } }
    \cup { filter(column(Root, <<"x">>, "json"), n, p) : n \in { <<"y">>, <<"z">> }, p \in Preds }
    \cup { filter(filter(column(Root, t, "json"), n1, p1), n2, p2) :
             t \in { <<"x">>, <<"y">> }, n1 \in { <<"y">>, <<"z">> }, p1 \in Preds,
             n2 \in { <<"y">>, <<"z">> }, p2 \in Preds }

InitSeq ==
    \E table \in Tables(Header3, Rows3 \cup { ShortRow, LongRow }, MaxSeqRows),
       regular \in BOOLEAN, held \in SeqViews \cup SeqColumns :
        Start(table, <<CR, LF>>, regular, held)

\* list(view)
ListView(view) ==
    /\ \E r \in { Drain(reader, IterView(view)) } :
           /\ reader' = r.R
           /\ last' = [Idle EXCEPT !.op = "list_view", !.arg = view.strip_columns,
                                   !.exc = r.exc, !.out = r.g.out, !.passes = 1]
    /\ UNCHANGED <<file, gens, subject>>

\* list(col)
ListColumn(col) ==
    /\ \E r \in { Drain(reader, IterColumn(col)) } :
           /\ reader' = r.R
           /\ last' = [Idle EXCEPT !.op = "list_column", !.arg = col,
                                   !.exc = r.exc, !.out = r.g.out, !.passes = 1]
    /\ UNCHANGED <<file, gens, subject>>

NextSeq ==
    \/ \E v \in SeqViews : subject = v /\ ListView(v)
    \/ \E c \in SeqColumns : subject = c /\ ListColumn(c)
    \/ EnsureLoaded

SpecSeq == InitSeq /\ [][NextSeq]_vars

-----------------------------------------------------------------------------
(* The methods of a view and of a column accessor the caller holds, over a
   table with a label column c and a vector column v *)

\* data rows of a file of SpecCol
MaxColRows == 2

HeaderV == << <<"c">>, <<"v">> >>

\* a label and a JSON array: half zeros, all zeros, no zeros
RowsV ==
    { << <<"1">>, <<"[", "0", ",", "1", "]">> >>, << <<"0">>, <<"[", "0", ",", "0", "]">> >>,
      << <<"1">>, <<"[", "1", ",", "1", "]">> >> }

\* the view of the input and a view without the labels
ColViews == { Root, strip(Root, <<"c">>) }

\* the vectors, the vectors labelled 1, and accessors that name a column the
\* header of their view lacks: as target, as filter, as both, and c where c
\* is stripped
Vectors == column(Root, <<"v">>, "json")
HeldColumns ==
    { Vectors,
      filter(Vectors, <<"c">>, { <<"1">> }),
      column(Root, <<"w">>, "json"),
      filter(Vectors, <<"w">>, { <<"1">> }),
      filter(column(Root, <<"w">>, "json"), <<"u">>, { <<"1">> }),
      filter(column(strip(Root, <<"c">>), <<"v">>, "json"), <<"c">>, { <<"1">> }) }

\* dtype=None and dtype=float
DTypes == { "None", "float" }

\* the caller holds a view and an accessor: any accessor with the view of the
\* input, or the vectors with the view without the labels
Held ==
    { [ view |-> Root, col |-> col ] : col \in HeldColumns }
    \cup { [ view |-> strip(Root, <<"c">>), col |-> Vectors ] }

InitCol ==
    \E table \in Tables(HeaderV, RowsV, MaxColRows), regular \in BOOLEAN, held \in Held :
        Start(table, <<LF>>, regular, held)

\* Strip that adds the name to the exclusion list of the view it is called on
StripInPlace(name) ==
    /\ subject' = [subject EXCEPT !.view = strip(subject.view, name)]
    /\ last' = [Idle EXCEPT !.op = "strip", !.arg = <<name>>,
                            !.out = <<strip(subject.view, name)>>]
    /\ UNCHANGED <<file, reader, gens>>

\* view.strip(name): the new view is returned
Strip(name) ==
    /\ last' = [Idle EXCEPT !.op = "strip", !.arg = <<name>>,
                            !.out = <<strip(subject.view, name)>>]
    /\ UNCHANGED <<file, reader, gens, subject>>

\* what a method of the accessor held leaves behind
Called(op, r) ==
    /\ reader' = r.R
    /\ subject' = [subject EXCEPT !.col = r.col]
    /\ last' = [Idle EXCEPT !.op = op, !.arg = subject.col, !.exc = r.exc, !.val = r.val,
                            !.out = r.out, !.passes = r.passes]
    /\ UNCHANGED <<file, gens>>

\* len(col)
ColumnLength == \E r \in { ColumnLen(reader, subject.col) } : Called("column_len", r)

\* col.peek()
Peek == \E r \in { peek(reader, subject.col) } : Called("peek", r)

\* col.matrix(dtype)
CallMatrix(dtype) == \E r \in { matrix(reader, subject.col, dtype) } : Called("matrix", r)

\* col.dense_matrix(dtype)
CallDense(dtype) ==
    \E r \in { dense_matrix(reader, subject.col, dtype) } : Called("dense_matrix", r)

\* col.sparse_matrix(dtype)
CallSparse(dtype) ==
    \E r \in { sparse_matrix(reader, subject.col, dtype) } : Called("sparse_matrix", r)

NextCol ==
    \/ \E v \in ColViews : ListView(v)
    \/ \E c \in HeldColumns : (c = Vectors \/ c = [subject.col EXCEPT !._len = None])
                              /\ ListColumn(c)
    \/ \E name \in { <<"c">>, <<"w">> } : Strip(name)
    \/ Length
    \/ EnsureLoaded
    \/ ColumnLength
    \/ Peek
    \/ \E dtype \in DTypes : CallMatrix(dtype)
    \/ \E dtype \in DTypes : CallDense(dtype)
    \/ \E dtype \in DTypes : CallSparse(dtype)

SpecCol == InitCol /\ [][NextCol]_vars

-----------------------------------------------------------------------------
(* matrix() over inputs longer than its sample *)

\* data rows of a file of SpecMatrix
MaxMatRows == 11

\* the rows of RowsV, and a row whose vector has no entries
RowsM == RowsV \cup { << <<"1">>, <<"[", "]">> >> }

\* k1 rows a and then k2 rows b
Blocks(a, k1, b, k2) == [ k \in 1..(k1 + k2) |-> IF k <= k1 THEN a ELSE b ]

\* a header and two blocks of equal rows, of up to MaxMatRows rows
InitMatrix ==
    \E a \in RowsM, b \in RowsM, k1 \in 0..MaxMatRows, regular \in BOOLEAN :
        \E k2 \in 0..(MaxMatRows - k1) :
            Start(<<HeaderV>> \o Blocks(a, k1, b, k2), <<LF>>, regular,
                  [ view |-> Root, col |-> Vectors ])

NextMatrix ==
    \/ \E dtype \in DTypes : CallMatrix(dtype)
    \/ ColumnLength
    \/ EnsureLoaded

SpecMatrix == InitMatrix /\ [][NextMatrix]_vars

-----------------------------------------------------------------------------
(***************************************************************************)
(* Opening a file by its name (_open) and the two objects that open one    *)
(***************************************************************************)

\* str.endswith
endswith(s, suffix) ==
    Len(s) >= Len(suffix) /\ SubSeq(s, Len(s) - Len(suffix) + 1, Len(s)) = suffix

\* what a call of _open did: the handle returned and the files it opened
Handle(kind, opened) == [ exc |-> "", handle |-> kind, opened |-> opened ]
Opened(codec, filename, mode) == [ codec |-> codec, filename |-> filename, mode |-> mode ]

\* _open that looks for the letters of a suffix without its dot
OpenWithoutDot(filename, direction) ==
    IF direction \notin { "in", "out" }
        THEN [ exc |-> "Exception", handle |-> "", opened |-> <<>> ]
    ELSE LET mode == IF direction = "in" THEN "rt" ELSE "wt"
         IN  IF filename = <<"-">>
                 THEN Handle(IF direction = "in" THEN "stdin" ELSE "stdout", <<>>)
             ELSE IF endswith(filename, <<"g", "z">>)
                 THEN Handle("file", << Opened("gzip", filename, mode) >>)
             ELSE IF endswith(filename, <<"b", "z", "2">>)
                 THEN Handle("file", << Opened("bz2", filename, mode) >>)
             ELSE IF endswith(filename, <<"x", "z">>)
                 THEN Handle("file", << Opened("lzma", filename, mode) >>)
             ELSE Handle("file", << Opened("open", filename, mode) >>)

\* _open
_open(filename, direction) ==
    IF direction \notin { "in", "out" }
        THEN [ exc |-> "Exception", handle |-> "", opened |-> <<>> ]
    ELSE LET mode == IF direction = "in" THEN "rt" ELSE "wt"
         IN  IF filename = <<"-">>
                 THEN Handle(IF direction = "in" THEN "stdin" ELSE "stdout", <<>>)
             ELSE IF endswith(filename, <<".", "g", "z">>)
                 THEN Handle("file", << Opened("gzip", filename, mode) >>)
             ELSE IF endswith(filename, <<".", "b", "z", "2">>)
                 THEN Handle("file", << Opened("bz2", filename, mode) >>)
             ELSE IF endswith(filename, <<".", "x", "z">>)
                 THEN Handle("file", << Opened("lzma", filename, mode) >>)
             ELSE Handle("file", << Opened("open", filename, mode) >>)

\* file names: a stem and an ending
Stems == { <<>>, <<"-">>, <<"a">>, <<"a", ".", "g", "z">>, <<"a", ".", "x", "z">> }
Endings ==
    { <<>>, <<".", "g", "z">>, <<".", "b", "z", "2">>, <<".", "x", "z">>,
      <<"g", "z">>, <<".", "b", "z">>, <<".", "t", "s", "v">>, <<".", "G", "Z">> }
Filenames == { stem \o ending : stem \in Stems, ending \in Endings } \ { <<>> }
Directions == { "in", "out", "rt", "" }

InitOpen ==
    \E filename \in Filenames, direction \in Directions :
        /\ file = <<>>
        /\ reader = CachingFileReader(filename # <<"-">>)
        /\ gens = [ i \in 1..MaxGens |-> Free ]
        /\ subject = [ filename |-> filename, direction |-> direction ]
        /\ last = Idle

\* _open(filename, direction), called directly
Open ==
    /\ last' = [Idle EXCEPT !.op = "open",
                            !.arg = << subject.filename, subject.direction >>,
                            !.exc = _open(subject.filename, subject.direction).exc,
                            !.out = << _open(subject.filename, subject.direction) >>]
    /\ UNCHANGED <<file, reader, gens, subject>>

\* OutputFile(filename)
NewOutputFile ==
    /\ last' = [Idle EXCEPT !.op = "OutputFile",
                            !.arg = << subject.filename, "out" >>,
                            !.exc = _open(subject.filename, "out").exc,
                            !.out = << _open(subject.filename, "out") >>]
    /\ UNCHANGED <<file, reader, gens, subject>>

\* CachingFileReader(filename): stdin is never taken for a regular file
NewCachingFileReader ==
    /\ last' = [Idle EXCEPT !.op = "CachingFileReader",
                            !.arg = << subject.filename, "in" >>,
                            !.exc = _open(subject.filename, "in").exc,
                            !.out = << _open(subject.filename, "in") >>]
    /\ reader' \in { CachingFileReader(regular) :
                         regular \in IF _open(subject.filename, "in").handle = "stdin"
                                         THEN { FALSE } ELSE BOOLEAN }
    /\ UNCHANGED <<file, gens, subject>>

NextOpen == Open \/ NewOutputFile \/ NewCachingFileReader

SpecOpen == InitOpen /\ [][NextOpen]_vars

(* The cat stage: splitting text files into documents and pairing the pages
   that follow one another (src/ttm/cat.py) *)

MaxWindow == 3
MaxTokens == 5

\* tokens[i:i+window] of a text of n_tokens tokens, as token positions
Slice(i, window, n_tokens) ==
    { t \in 1..n_tokens : i < t /\ t <= i + window }

RECURSIVE SplitLoop(_, _, _, _, _, _)
\* the while loop of _split_doc
SplitLoop(filename, n_tokens, window, step, i, n) ==
    IF (i - step) + window < n_tokens
        THEN << [ doc_id |-> <<filename, n>>, i |-> i,
                  tokens |-> Slice(i, window, n_tokens) ] >>
             \o SplitLoop(filename, n_tokens, window, step, i + step, n + 1)
        ELSE <<>>

\* _split_doc, given the number of tokens of the normalized text
_split_doc(filename, n_tokens, window, step) ==
    IF window % step # 0
        THEN [ exc |-> "Exception", docs |-> <<>> ]
        ELSE [ exc |-> "", docs |-> SplitLoop(filename, n_tokens, window, step, 0, 1) ]

\* docs: every document of every file of the directory
docs(dir, window, step) ==
    LET RECURSIVE Files(_)
        Files(k) ==
            IF k > Len(dir) THEN <<>>
            ELSE _split_doc(dir[k].filename, dir[k].n_tokens, window, step).docs
                 \o Files(k + 1)
    IN  Files(1)

RECURSIVE PairLoop(_, _, _, _)
\* the inner loop of psq_pairs over the documents of one file
PairLoop(pages, n, last_ids, width) ==
    IF n > Len(pages) THEN <<>>
    ELSE LET ids == Append(last_ids, pages[n].doc_id)
         IN  IF Len(ids) > width
                 THEN << << Head(ids), pages[n].doc_id >> >>
                      \o PairLoop(pages, n + 1, Tail(ids), width)
                 ELSE PairLoop(pages, n + 1, ids, width)

\* psq_pairs that pairs a page as soon as window // step pages are held
PsqPairsOneEarly(dir, window, step) ==
    LET RECURSIVE Files(_)
        Files(k) ==
            IF k > Len(dir) THEN <<>>
            ELSE PairLoop(_split_doc(dir[k].filename, dir[k].n_tokens, window, step).docs,
                          1, <<>>, (window \div step) - 1)
                 \o Files(k + 1)
    IN  Files(1)

\* psq_pairs
psq_pairs(dir, window, step) ==
    LET RECURSIVE Files(_)
        Files(k) ==
            IF k > Len(dir) THEN <<>>
            ELSE PairLoop(_split_doc(dir[k].filename, dir[k].n_tokens, window, step).docs,
                          1, <<>>, window \div step)
                 \o Files(k + 1)
    IN  Files(1)

\* the step _cli settles on: the one given, or half of an even window
StepOf(window, step) ==
    IF step # None THEN step
    ELSE IF window % 2 = 0 THEN window \div 2
    ELSE None

\* the directory: two text files of up to MaxTokens tokens
Dirs ==
    { << [ filename |-> "a", n_tokens |-> ta ], [ filename |-> "b", n_tokens |-> tb ] >> :
          ta \in 0..MaxTokens, tb \in 0..MaxTokens }

InitCat ==
    \E dir \in Dirs, window \in 1..MaxWindow, step \in (1..MaxWindow) \cup { None } :
        /\ file = <<>>
        /\ reader = CachingFileReader(FALSE)
        /\ gens = [ i \in 1..MaxGens |-> Free ]
        /\ subject = [ dir |-> dir, window |-> window, step |-> step ]
        /\ last = Idle

\* cat._cli for TYPE docs or psq-pairs, after the options are parsed
Cat(type) ==
    /\ last' =
           IF StepOf(subject.window, subject.step) = None
               THEN [Idle EXCEPT !.op = type, !.exc = "CliError"]
           ELSE IF subject.window % StepOf(subject.window, subject.step) # 0
               THEN [Idle EXCEPT !.op = type, !.exc = "CliError"]
           ELSE IF type = "docs"
               THEN [Idle EXCEPT !.op = type,
                                 !.out = docs(subject.dir, subject.window,
                                              StepOf(subject.window, subject.step))]
           ELSE [Idle EXCEPT !.op = type,
                             !.out = psq_pairs(subject.dir, subject.window,
                                               StepOf(subject.window, subject.step))]
    /\ UNCHANGED <<file, reader, gens, subject>>

NextCat == Cat("docs") \/ Cat("psq-pairs")

SpecCat == InitCat /\ [][NextCat]_vars

(* filter() on the column accessor the caller holds, and iterations of the
   accessor held and of the one derived *)

\* filter that adds the pair to the accessor it is called on
FilterInPlace(name, f) ==
    /\ subject' = [subject EXCEPT !.col = filter(subject.col, name, f)]
    /\ last' = [Idle EXCEPT !.op = "filter", !.arg = <<name, f>>,
                            !.out = <<filter(subject.col, name, f)>>]
    /\ UNCHANGED <<file, reader, gens>>

\* col.filter(name, f)
Filter(name, f) ==
    /\ last' = [Idle EXCEPT !.op = "filter", !.arg = <<name, f>>,
                            !.out = <<filter(subject.col, name, f)>>]
    /\ UNCHANGED <<file, reader, gens, subject>>

\* list(col.filter(name, f))
ListDerived ==
    /\ last.op = "filter"
    /\ ListColumn(last.out[1])

NextFilter ==
    \/ \E name \in { <<"c">>, <<"w">> }, f \in Preds : Filter(name, f)
    \/ ListDerived
    \/ ListColumn(subject.col)
    \/ EnsureLoaded

SpecFilter == InitCol /\ [][NextFilter]_vars

(* The methods of a view and of a column accessor, called while an iteration
   of the same input is open *)

HeldBusy ==
    { [ view |-> v, col |-> c ] :
          v \in ColViews, c \in { Vectors, filter(Vectors, <<"c">>, { <<"1">> }) } }

\* a row the filter on c = 1 keeps and a row it drops
RowsBusy ==
    { << <<"1">>, <<"[", "0", ",", "1", "]">> >>, << <<"0">>, <<"[", "0", ",", "0", "]">> >> }

InitBusy ==
    \E table \in Tables(HeaderV, RowsBusy, MaxColRows), regular \in BOOLEAN, held \in HeldBusy :
        Start(table, <<LF>>, regular, held)

\* the caller holds one iteration at a time, in the first slot
NextBusy ==
    \/ IterateView(1, subject.view)
    \/ IterateColumn(1, subject.col)
    \/ Advance(1)
    \/ Discard(1)
    \/ Length
    \/ ViewLength(subject.view)
    \/ EnsureLoaded
    \/ ColumnLength
    \/ Peek
    \/ \E dtype \in DTypes : CallMatrix(dtype)

SpecBusy == InitBusy /\ [][NextBusy]_vars

(* Column accessors of one view iterated in lock step by zip, as show.book,
   show.desc, eval.psq_count and desc.pure_docs do *)

\* the accessors zipped: alternately the labels and the vectors
ZipColumns ==
    [ i \in 1..MaxGens |-> IF i % 2 = 1 THEN column(Root, <<"c">>, "id") ELSE Vectors ]

InitZip ==
    \E table \in Tables(HeaderV, RowsV, MaxColRows), regular \in BOOLEAN :
        Start(table, <<LF>>, regular,
              [ cols |-> ZipColumns, state |-> "idle", loaded |-> FALSE, zipped |-> <<>> ])

RECURSIVE ZipStep(_, _, _, _)
\* one __next__ of zip: next() on each iterator in turn, up to the first
\* that is exhausted or raises
ZipStep(R, gs, i, vals) ==
    IF i > Len(gs) THEN [ R |-> R, gs |-> gs, tag |-> "yield", vals |-> vals, exc |-> "" ]
    ELSE With(GenNext(R, gs[i]), LAMBDA r :
             IF r.tag = "yield"
                 THEN ZipStep(r.R, [gs EXCEPT ![i] = r.g], i + 1, Append(vals, r.val))
                 ELSE [ R |-> r.R, gs |-> [gs EXCEPT ![i] = r.g], tag |-> r.tag,
                        vals |-> <<>>, exc |-> r.exc ])

\* zip(col, col, ...): iter() of every accessor, of which no line runs yet
ZipOpen ==
    /\ subject.state = "idle"
    /\ gens' = [ i \in DOMAIN gens |-> IterColumn(subject.cols[i]) ]
    /\ subject' = [subject EXCEPT !.state = "open",
                                  !.loaded = reader.regular_file \/ reader.cache_complete]
    /\ last' = Idle
    /\ UNCHANGED <<file, reader>>

\* one turn of the for loop over the zip
ZipNext ==
    /\ subject.state = "open"
    /\ \E r \in { ZipStep(reader, gens, 1, <<>>) } :
           /\ reader' = r.R
           /\ gens' = r.gs
           /\ subject' = IF r.tag = "yield"
                             THEN [subject EXCEPT !.zipped = Append(subject.zipped, r.vals)]
                             ELSE [subject EXCEPT !.state = IF r.tag = "return" THEN "done"
                                                            ELSE "raised"]
           /\ last' = [Idle EXCEPT !.op = "zip", !.exc = r.exc]
    /\ UNCHANGED file

\* break: the loop is left and the iterators are dropped
ZipBreak ==
    /\ subject.state = "open"
    /\ gens' = [ i \in DOMAIN gens |-> Free ]
    /\ subject' = [subject EXCEPT !.state = "left"]
    /\ last' = Idle
    /\ UNCHANGED <<file, reader>>

NextZip == EnsureLoaded \/ ZipOpen \/ ZipNext \/ ZipBreak

SpecZip == InitZip /\ [][NextZip]_vars

(* The stages cli() runs on the input (cluster, redim, embed, desc, show):
   each stage is the sequence of operations it performs on the view of the
   input, in the order of its code.  What the libraries compute from the
   values (clusterings, reductions, embeddings) is left out; the passes they
   make over the accessors are kept. *)

MaxStageRows == 2

\* a stage holds up to three iterations at a time (show.desc zips three)
StageSlots == 3

NameId == <<"i", "d">>
NameContent == <<"c", "o", "n", "t", "e", "n", "t">>
NameHighdim == <<"h", "i", "g", "h", "d", "i", "m">>
NameLowdim == <<"l", "o", "w", "d", "i", "m">>
NameCluster == <<"c", "l", "u", "s", "t", "e", "r">>
NameTfidfWords == <<"t", "f", "i", "d", "f", "_", "w", "o", "r", "d", "s">>
NamePureDocs == <<"p", "u", "r", "e", "_", "d", "o", "c", "s">>

\* the columns of a file that went through the whole pipeline
HeaderS ==
    << NameId, NameContent, NameHighdim, NameLowdim, NameCluster, NameTfidfWords,
       NamePureDocs >>

\* a document of cluster 0 and a document of cluster 1
RowsS ==
    { << <<"a">>, <<"x">>, <<"[", "0", ",", "1", "]">>, <<"[", "0", ",", "1", "]">>,
         <<"0">>, <<"w">>, <<"p">> >>,
      << <<"b">>, <<"y">>, <<"[", "1", ",", "1", "]">>, <<"[", "1", ",", "0", "]">>,
         <<"1">>, <<"w">>, <<"p">> >> }

\* a line without its k-th cell
Drop(row, k) == [ j \in 1..(Len(row) - 1) |-> IF j < k THEN row[j] ELSE row[j + 1] ]

\* the tables of up to MaxStageRows rows, with every column or with one missing
StageTables ==
    Tables(HeaderS, RowsS, MaxStageRows)
    \cup { [ n \in 1..Len(t) |-> Drop(t[n], k) ] :
               t \in Tables(HeaderS, RowsS, MaxStageRows) \ { <<>> }, k \in 1..Len(HeaderS) }

\* one instruction of a stage
Instr(op, slot, col, frame, arg, handler) ==
    [ op |-> op, slot |-> slot, col |-> col, frame |-> frame, arg |-> arg,
      handler |-> handler ]

\* infile.ensure_loaded()
Load == Instr("load", 0, NoColumn, Free, "", "")
\* a loop, comprehension or library call that iterates col to its end
Loop(col, handler) == Instr("loop", 0, col, Free, "", handler)
\* len(col)
LenOf(col) == Instr("len", 0, col, Free, "", "")
\* col.matrix(dtype=dtype)
MatrixOf(col, dtype, handler) == Instr("matrix", 0, col, Free, dtype, handler)
\* iter(col) or iter(view), held in a slot
Iter(slot, frame) == Instr("iter", slot, NoColumn, frame, "", "")
\* next(input_lines), the header line
NextOf(slot) == Instr("next", slot, NoColumn, Free, "", "")
\* for ... in zip(...) over the iterations held in the first k slots
ZipOf(k) == Instr("zip", k, NoColumn, Free, "", "")
\* as ZipOf, with a break the values may lead to
ZipBreakOf(k) == Instr("zip", k, NoColumn, Free, "break", "")
\* cluster --split: zip(input_lines, cluster), cluster taking next(subclusters)
SplitZipOf(arg) == Instr("split_zip", 3, NoColumn, Free, arg, "")
\* embed: for line in input_lines, with next(e) for every e in embeddings
EmbedForOf(arg) == Instr("embed_for", 2, NoColumn, Free, arg, "")
\* embed: the body of `for filename in opts['include']` for one FILE
IncludeOf == Instr("include", 0, NoColumn, Free, "", "")

\* cluster._cli after its options: apply the method, then copy the rows
ClusterCli(S) ==
    LET lowdim == column(Root, NameLowdim, "json")
        vectors == IF S.split = <<>> THEN lowdim
                   ELSE filter(lowdim, NameCluster, { S.split[1] })
        handler == IF S.split = <<>> THEN "" ELSE "split"
        \* argmax returns a generator, random loops, the others take the matrix
        apply == IF S.method = "argmax"
                     THEN << Iter(IF S.split = <<>> THEN 2 ELSE 3, IterColumn(vectors)) >>
                 ELSE IF S.method = "random" THEN << Loop(vectors, handler) >>
                 ELSE << MatrixOf(vectors, "None", handler) >>
        cluster == IF S.split = <<>> THEN <<>>
                   ELSE << Iter(2, IterColumn(column(Root, NameCluster, "id"))) >>
        copy == IF S.split # <<>>
                    THEN SplitZipOf(IF S.method = "argmax" THEN "lazy" ELSE "list")
                ELSE IF S.method = "argmax" THEN ZipOf(2)
                ELSE ZipOf(1)
    IN  apply \o cluster
        \o << Iter(1, IterView(strip(Root, NameCluster))), NextOf(1), copy >>

\* RedimCli without the ensure_loaded() before the rows are copied
RedimCliNoLoad(S) ==
    LET highdim == column(Root, NameHighdim, "json")
        apply == IF S.method = "id" THEN <<>>
                 ELSE IF S.method = "svd" THEN << MatrixOf(highdim, "float", "") >>
                 ELSE << MatrixOf(highdim, "None", "") >>
    IN  apply
        \o << Iter(1, IterView(strip(Root, NameLowdim))), NextOf(1) >>
        \o (IF S.method = "id" THEN << Iter(2, IterColumn(highdim)), ZipOf(2) >>
            ELSE << ZipOf(1) >>)

\* redim._cli after its options
RedimCli(S) ==
    LET highdim == column(Root, NameHighdim, "json")
        apply == IF S.method = "id" THEN <<>>
                 ELSE IF S.method = "svd" THEN << MatrixOf(highdim, "float", "") >>
                 ELSE << MatrixOf(highdim, "None", "") >>
    IN  apply
        \o << Load, Iter(1, IterView(strip(Root, NameLowdim))), NextOf(1) >>
        \o (IF S.method = "id" THEN << Iter(2, IterColumn(highdim)), ZipOf(2) >>
            ELSE << ZipOf(1) >>)

\* embed._cli after its options, with at most one METHOD and one --include
EmbedCli(S) ==
    << LenOf(column(Root, NameId, "id")) >>
    \o (IF S.include = <<>> THEN <<>> ELSE << IncludeOf >>)
    \o (IF S.method = "" THEN <<>>
        ELSE << Iter(2, IterColumn(column(Root, NameContent, "id"))) >>)
    \o (IF S.highdim_only THEN << Iter(1, IterColumn(column(Root, NameId, "id"))) >>
        ELSE << Iter(1, IterView(strip(Root, NameHighdim))), NextOf(1) >>)
    \o << EmbedForOf("") >>

\* desc.tfidf_words: fit, transform, set(topics), zip(docs, topics)
TfidfWords ==
    LET pages == column(Root, NameContent, "id")
        topics == column(Root, NameCluster, "id")
    IN  << Loop(pages, ""), Loop(pages, ""), Loop(topics, ""), Loop(topics, "") >>

\* desc.pure_docs
PureDocs ==
    LET pages == column(Root, NameId, "id")
        topics == column(Root, NameCluster, "id")
    IN  << Loop(topics, ""), Loop(pages, ""),
           Iter(1, IterColumn(pages)), Iter(2, IterColumn(topics)), ZipOf(2) >>

\* desc._cli after its options
DescCli(S) ==
    TfidfWords \o PureDocs
    \o << Iter(1, IterView(Root)), NextOf(1),
          Iter(2, IterColumn(column(Root, NameCluster, "id"))), ZipOf(2) >>

\* show._book for one book: cluster_distribution, _book_filter, book
ShowBook ==
    << Loop(column(Root, NameCluster, "id"), ""), Loop(column(Root, NameId, "id"), ""),
       Load, Iter(1, IterColumn(column(Root, NameId, "id"))),
       Iter(2, IterColumn(column(Root, NameCluster, "id"))), ZipOf(2) >>

\* show._desc: cluster_distribution, then desc
ShowDesc ==
    << Loop(column(Root, NameCluster, "id"), ""), Load,
       Iter(1, IterColumn(column(Root, NameCluster, "id"))),
       Iter(2, IterColumn(column(Root, NameTfidfWords, "id"))),
       Iter(3, IterColumn(column(Root, NamePureDocs, "id"))), ZipBreakOf(3) >>

\* show._clusters, without a REGEX and with one that matches book a
ShowClusters(S) ==
    IF S.method = "clusters" THEN << Loop(column(Root, NameCluster, "id"), "") >>
    ELSE << Loop(column(Root, NameId, "id"), ""),
            Loop(filter(column(Root, NameCluster, "id"), NameId, { <<"a">> }), "") >>

\* show._cli
ShowCli(S) ==
    IF S.method = "book" THEN ShowBook
    ELSE IF S.method = "desc" THEN ShowDesc
    ELSE ShowClusters(S)

\* c[cmd[0]]._cli
Script(S) ==
    IF S.cmd = "cluster" THEN ClusterCli(S)
    ELSE IF S.cmd = "redim" THEN RedimCli(S)
    ELSE IF S.cmd = "embed" THEN EmbedCli(S)
    ELSE IF S.cmd = "desc" THEN DescCli(S)
    ELSE ShowCli(S)

\* what one instruction, or one turn of a loop, comes to: out holds the line
\* a turn of embed printed
Wrote(R, gs, exc, stay, out) ==
    [ R |-> R, gs |-> gs, exc |-> exc, stay |-> stay, out |-> out, head |-> <<>> ]

Done(R, gs, exc, stay) == Wrote(R, gs, exc, stay, <<>>)

DigitChar(n) == IF n = 0 THEN "0" ELSE "1"

\* json.dumps of each item of a list of numbers
DumpedNumbers(v) == [ k \in 1..Len(v) |-> << DigitChar(v[k]) >> ]

\* json.dumps of each item v.extend(s) adds for a str s: its characters
DumpedChars(s) == [ k \in 1..Len(s) |-> << "\"", s[k], "\"" >> ]

RECURSIVE JoinItems(_)
JoinItems(items) ==
    IF items = <<>> THEN <<>>
    ELSE IF Len(items) = 1 THEN items[1]
    ELSE items[1] \o << ",", " " >> \o JoinItems(Tail(items))

\* json.dumps(v), v given by the dumped items
json_dumps(items) == << "[" >> \o JoinItems(items) \o << "]" >>

\* the vector a METHOD gives a document: one entry stands for what the
\* library computes
MethodVector == << 1 >>

\* the column a stage adds to the lines it copies
Produced(S) ==
    IF S.cmd = "redim" THEN NameLowdim
    ELSE IF S.cmd = "cluster" THEN NameCluster
    ELSE NameHighdim

\* a header printed as it was read, the column name left out
HeaderNextUnnamed(R, gs, S, r, slot) ==
    IF r.tag # "yield"
        THEN Done(r.R, [gs EXCEPT ![slot] = r.g],
                  IF r.tag = "return" THEN "StopIteration" ELSE r.exc, FALSE)
    ELSE [Done(r.R, [gs EXCEPT ![slot] = r.g], "", FALSE) EXCEPT !.head = << r.val >>]

\* print(f'{next(input_lines)}\t{"lowdim"}'), likewise "cluster" and "highdim":
\* head holds the header line printed; desc and show are not followed
HeaderNext(R, gs, S, r, slot) ==
    IF r.tag # "yield"
        THEN Done(r.R, [gs EXCEPT ![slot] = r.g],
                  IF r.tag = "return" THEN "StopIteration" ELSE r.exc, FALSE)
    ELSE IF S.cmd \in { "redim", "cluster", "embed" }
        THEN [Done(r.R, [gs EXCEPT ![slot] = r.g], "", FALSE)
                 EXCEPT !.head = << r.val \o <<TAB>> \o Produced(S) >>]
    ELSE Done(r.R, [gs EXCEPT ![slot] = r.g], "", FALSE)

\* int(numpy.argmax(v)): the index of the first of the largest entries
argmax(v) ==
    (CHOOSE i \in 1..Len(v) : /\ \A j \in 1..Len(v) : v[j] <= v[i]
                             /\ \A j \in 1..(i - 1) : v[j] < v[i]) - 1

\* the k-th label of the list a clustering library returns: the parity of k
\* stands for what the library computes
Label(k) == (k - 1) % 2

\* the value zip hands the loop of redim or cluster besides the line, as it
\* is printed: the vector or the label, of the accessor or of the k-th item
\* of the list a library returned
Value(S, vals, k) ==
    IF S.cmd = "redim"
        THEN json_dumps(DumpedNumbers(IF S.method = "id" THEN vals[2] ELSE MethodVector))
    ELSE << DigitChar(IF S.method = "argmax" THEN argmax(vals[2]) ELSE Label(k)) >>

\* print(f'{line}\t{json.dumps(v)}') of redim and print(f'{line}\t{cluster_id}')
\* of cluster without --split, in one turn of the loop over zip(...)
ZipTurn(ins, R, gs, S) ==
    With(ZipStep(R, SubSeq(gs, 1, ins.slot), 1, <<>>), LAMBDA z :
        IF z.tag = "yield" /\ S.cmd \in { "redim", "cluster" }
            THEN Wrote(z.R, z.gs \o SubSeq(gs, ins.slot + 1, Len(gs)), "", TRUE,
                       << z.vals[1] \o <<TAB>> \o Value(S, z.vals, S.turn + 1) >>)
        ELSE Done(z.R, z.gs \o SubSeq(gs, ins.slot + 1, Len(gs)), z.exc, z.tag = "yield"))

\* one item taken for every label read, whichever it is
TakenByRow(labels, S) == Len(labels)

\* how many items next(subclusters) has taken from the list a method
\* returned once the labels were read: one for every label equal to --split
Taken(labels, S) == Len(SelectSeq(labels, LAMBDA x : x = S.split[1]))

\* one turn of zip(input_lines, cluster) of cluster --split, where cluster is
\* ( f'{c}.{next(subclusters)}' if c == split else c for c in column )
SplitZipTurn(ins, R, gs, S) ==
    With(GenNext(R, gs[1]), LAMBDA a :
        IF a.tag # "yield" THEN Done(a.R, [gs EXCEPT ![1] = a.g], a.exc, FALSE)
        ELSE With(GenNext(a.R, gs[2]), LAMBDA c :
            IF c.tag # "yield"
                THEN Done(c.R, [gs EXCEPT ![1] = a.g, ![2] = c.g], c.exc, FALSE)
            ELSE IF c.val = S.split[1] /\ ins.arg = "lazy"
                THEN With(GenNext(c.R, gs[3]), LAMBDA s :
                         IF s.tag # "yield"
                             THEN Done(s.R, [gs EXCEPT ![1] = a.g, ![2] = c.g, ![3] = s.g],
                                       IF s.tag = "return" THEN "RuntimeError" ELSE s.exc,
                                       FALSE)
                         ELSE Wrote(s.R, [gs EXCEPT ![1] = a.g, ![2] = c.g, ![3] = s.g], "",
                                    TRUE, << a.val \o <<TAB>> \o c.val \o << "." >>
                                             \o << DigitChar(argmax(s.val)) >> >>))
            ELSE IF c.val = S.split[1]
                THEN Wrote(c.R, [gs EXCEPT ![1] = a.g, ![2] = c.g], "", TRUE,
                           << a.val \o <<TAB>> \o c.val \o << "." >>
                              \o << DigitChar(Label(Taken(c.g.out, S))) >> >>)
            ELSE Wrote(c.R, [gs EXCEPT ![1] = a.g, ![2] = c.g], "", TRUE,
                       << a.val \o <<TAB>> \o c.val >>)))

\* next(e) of the generator a METHOD returned, in the turn-th turn of the loop:
\* bow and tfidf fit on the first next and then hand out rows, doc2vec trains
\* on the first next and then walks the documents, the others walk them
MethodNext(R, g, S) ==
    IF S.method \in { "bow", "tfidf" }
        THEN IF S.turn = 0
                 THEN With(Drain(R, g), LAMBDA d : [d EXCEPT !.tag = IF d.exc = "" THEN "yield"
                                                                   ELSE "raise"])
                 ELSE IF S.turn < Len(g.out) THEN Yield(R, g, g.out[S.turn + 1])
                 ELSE Return(R, g)
    ELSE IF S.method = "doc2vec" /\ S.turn = 0
        THEN With(Drain(R, IterColumn(column(Root, NameContent, "id"))), LAMBDA d :
                 IF d.exc # "" THEN Raise(d.R, g, d.exc) ELSE GenNext(d.R, g))
    ELSE GenNext(R, g)

\* the files given to --include: the 'id' and 'highdim' columns of the
\* documents of RowsS, in either order
HeaderI == << NameId, NameHighdim >>

IncludedA == << <<"a">>, <<"[", "0", ",", "1", "]">> >>

IncludedB == << <<"b">>, <<"[", "1", ",", "1", "]">> >>

IncludeFiles ==
    { << HeaderI >>, << HeaderI, IncludedA >>, << HeaderI, IncludedA, IncludedB >>,
      << HeaderI, IncludedB, IncludedA >> }

\* f.column(name) iterated to its end, f being a regular file read by an
\* InputFile of its own: the raw cells, map_f being the default
IncludedColumn(f, name) ==
    IF f = <<>> THEN [ exc |-> "ExpectedRuntimeError", out |-> <<>> ]
    ELSE IF ~In(name, f[1]) THEN [ exc |-> "ColumnNotFound", out |-> <<>> ]
    ELSE [ exc |-> "", out |-> [ n \in 1..(Len(f) - 1) |-> f[n + 1][index(f[1], name)] ] ]

\* the body of the loop over opts['include'] for the file f: the line counts
\* are compared, then the ids are compared row by row by zip(range(2,
\* total_docs+2), infile.column('id'), f.column('id')), which pulls nothing
\* when total_docs is 0
IncludeCheck(R, gs, S) ==
    With(ReaderLen(R), LAMBDA l :
        IF l.exc # "" THEN Done(l.R, gs, l.exc, FALSE)
        ELSE IF Len(S.include[1]) # l.val THEN Done(l.R, gs, "ExpectedRuntimeError", FALSE)
        ELSE With(Drain(l.R, IterColumn(column(Root, NameId, "id"))), LAMBDA a :
                 IF a.exc # "" THEN Done(a.R, gs, a.exc, FALSE)
                 ELSE IF a.g.out = <<>> THEN Done(a.R, gs, "", FALSE)
                 ELSE With(IncludedColumn(S.include[1], NameId), LAMBDA b :
                          IF b.exc # "" THEN Done(a.R, gs, b.exc, FALSE)
                          ELSE IF \E n \in 1..Len(a.g.out) :
                                      n <= Len(b.out) /\ a.g.out[n] # b.out[n]
                              THEN Done(a.R, gs, "ExpectedRuntimeError", FALSE)
                          ELSE Done(a.R, gs, "", FALSE))))

\* next(e) for e = iter(f.column('highdim')) in the turn-th turn of the loop
IncludedNext(f, turn) ==
    With(IncludedColumn(f, NameHighdim), LAMBDA c :
        IF c.exc # "" THEN [ exc |-> c.exc, val |-> <<>> ]
        ELSE IF turn >= Len(c.out) THEN [ exc |-> "StopIteration", val |-> <<>> ]
        ELSE [ exc |-> "", val |-> c.out[turn + 1] ])

\* one turn of the loop of embed: --append puts the accessor itself, which
\* has no __next__, among the iterators; an included file contributes its
\* raw cell, a str; the line printed is f'{line}\t{json.dumps(v)}'
EmbedForTurn(ins, R, gs, S) ==
    With(GenNext(R, gs[1]), LAMBDA a :
        IF a.tag # "yield" THEN Done(a.R, [gs EXCEPT ![1] = a.g], a.exc, FALSE)
        ELSE IF S.append THEN Done(a.R, [gs EXCEPT ![1] = a.g], "TypeError", FALSE)
        ELSE With(IF S.include = <<>> THEN [ exc |-> "", val |-> <<>> ]
                  ELSE IncludedNext(S.include[1], S.turn), LAMBDA i :
                 IF i.exc # "" THEN Done(a.R, [gs EXCEPT ![1] = a.g], i.exc, FALSE)
                 ELSE IF S.method = ""
                     THEN Wrote(a.R, [gs EXCEPT ![1] = a.g], "", TRUE,
                                << a.val \o <<TAB>> \o json_dumps(DumpedChars(i.val)) >>)
                 ELSE With(MethodNext(a.R, gs[2], S), LAMBDA e :
                          IF e.tag # "yield"
                              THEN Done(e.R, [gs EXCEPT ![1] = a.g, ![2] = e.g],
                                        IF e.tag = "return" THEN "StopIteration" ELSE e.exc,
                                        FALSE)
                          ELSE Wrote(e.R, [gs EXCEPT ![1] = a.g, ![2] = e.g], "", TRUE,
                                     << a.val \o <<TAB>>
                                        \o json_dumps(DumpedChars(i.val)
                                                      \o DumpedNumbers(MethodVector)) >>))))

\* the instruction carried out on the line cache R and the iterations gs
Exec(ins, R, gs, S) ==
    IF ins.op = "load" THEN With(ensure_loaded(R), LAMBDA r : Done(r.R, gs, r.exc, FALSE))
    ELSE IF ins.op = "loop"
        THEN With(Drain(R, IterColumn(ins.col)), LAMBDA r : Done(r.R, gs, r.exc, FALSE))
    ELSE IF ins.op = "len"
        THEN With(ColumnLen(R, ins.col), LAMBDA r : Done(r.R, gs, r.exc, FALSE))
    ELSE IF ins.op = "matrix"
        THEN With(matrix(R, ins.col, ins.arg), LAMBDA r : Done(r.R, gs, r.exc, FALSE))
    ELSE IF ins.op = "iter" THEN Done(R, [gs EXCEPT ![ins.slot] = ins.frame], "", FALSE)
    ELSE IF ins.op = "next"
        THEN With(GenNext(R, gs[ins.slot]), LAMBDA r : HeaderNext(R, gs, S, r, ins.slot))
    ELSE IF ins.op = "zip" THEN ZipTurn(ins, R, gs, S)
    ELSE IF ins.op = "split_zip" THEN SplitZipTurn(ins, R, gs, S)
    ELSE IF ins.op = "include" THEN IncludeCheck(R, gs, S)
    ELSE EmbedForTurn(ins, R, gs, S)

\* the except clauses of cluster._cli around the method it applies to a split
Except(handler, exc) ==
    IF handler = "split" /\ exc \in { "ColumnNotFound", "EmptyColumnError" } THEN "CliError"
    ELSE exc

\* the commands cli() gives an input file, with their methods or subcommands
Commands ==
    { [ cmd |-> "cluster", method |-> m, split |-> s, append |-> FALSE, highdim_only |-> FALSE,
        include |-> <<>> ] :
          m \in { "argmax", "aggl", "kmeans", "hdbscan", "random" }, s \in { <<>>, << <<"1">> >> } }
    \cup { [ cmd |-> "redim", method |-> m, split |-> <<>>, append |-> FALSE,
             highdim_only |-> FALSE, include |-> <<>> ] : m \in { "id", "svd", "lda", "umap" } }
    \cup { [ cmd |-> "embed", method |-> m, split |-> <<>>, append |-> a, highdim_only |-> h,
             include |-> <<>> ] :
               m \in { "bow", "tfidf", "doc2vec", "bert", "sbert", "pool" },
               a \in BOOLEAN, h \in BOOLEAN }
    \cup { [ cmd |-> "embed", method |-> m, split |-> <<>>, append |-> FALSE,
             highdim_only |-> FALSE, include |-> << f >> ] :
               m \in { "", "sbert" }, f \in IncludeFiles }
    \cup { [ cmd |-> "desc", method |-> "", split |-> <<>>, append |-> FALSE,
             highdim_only |-> FALSE, include |-> <<>> ] }
    \cup { [ cmd |-> "show", method |-> m, split |-> <<>>, append |-> FALSE,
             highdim_only |-> FALSE, include |-> <<>> ] :
               m \in { "book", "desc", "clusters", "clusters REGEX" } }

InitStage ==
    \E table \in StageTables, regular \in BOOLEAN, command \in Commands :
        /\ file = Raw(table, <<LF>>)
        /\ reader = CachingFileReader(regular)
        /\ gens = [ i \in 1..StageSlots |-> Free ]
        /\ subject = [ cmd |-> command.cmd, method |-> command.method, split |-> command.split,
                       append |-> command.append, highdim_only |-> command.highdim_only,
                       include |-> command.include, header |-> <<>>, written |-> <<>>,
                       pc |-> 1, turn |-> 0, status |-> "run", origin |-> "", exc |-> "",
                       exit |-> "" ]
        /\ last = Idle

\* the stage carries out its next instruction, if that is one of ops
Step(ops) ==
    /\ subject.status = "run"
    /\ subject.pc <= Len(Script(subject))
    /\ Script(subject)[subject.pc].op \in ops
    /\ \E r \in { Exec(Script(subject)[subject.pc], reader, gens, subject) } :
           /\ reader' = r.R
           /\ gens' = r.gs
           /\ subject' =
                  IF r.exc # ""
                      THEN [subject EXCEPT !.status = "raised", !.origin = r.exc,
                                           !.exc = Except(Script(subject)[subject.pc].handler,
                                                          r.exc)]
                  ELSE IF r.stay THEN [subject EXCEPT !.turn = @ + 1,
                                                      !.written = @ \o r.out]
                  ELSE [subject EXCEPT !.pc = @ + 1, !.turn = 0, !.header = @ \o r.head]
           /\ last' = [Idle EXCEPT !.op = Script(subject)[subject.pc].op, !.exc = r.exc]
    /\ UNCHANGED file

\* a call that runs to its end: ensure_loaded, a full loop, len, matrix
Call == Step({ "load", "loop", "len", "matrix" })
\* iter(x)
OpenIter == Step({ "iter" })
\* next(input_lines) for the header
NextLine == Step({ "next" })
\* one turn of a loop over iterations held
Turn == Step({ "zip", "split_zip", "embed_for" })
\* embed compares an included file with the input
Include == Step({ "include" })

\* break out of the loop of show.desc
Break ==
    /\ subject.status = "run"
    /\ subject.pc <= Len(Script(subject))
    /\ Script(subject)[subject.pc].arg = "break"
    /\ subject.turn >= 1
    /\ subject' = [subject EXCEPT !.pc = @ + 1, !.turn = 0]
    /\ last' = Idle
    /\ UNCHANGED <<file, reader, gens>>

\* _cli returns
Returns ==
    /\ subject.status = "run"
    /\ subject.pc > Len(Script(subject))
    /\ subject' = [subject EXCEPT !.status = "done"]
    /\ last' = Idle
    /\ UNCHANGED <<file, reader, gens>>

\* the except clause of cli() around _cli
CliExcept ==
    /\ subject.status = "raised"
    /\ subject' = [subject EXCEPT !.status = "cli",
                                  !.exc = IF @ \in { "ColumnNotFound", "ExpectedRuntimeError" }
                                              THEN "ExpectedRuntimeError" ELSE @]
    /\ last' = Idle
    /\ UNCHANGED <<file, reader, gens>>

\* main(): the exit status, or the exception that leaves main
Main ==
    /\ subject.status \in { "done", "cli" }
    /\ subject' = [subject EXCEPT !.status = "exit",
                                  !.exit = IF subject.status = "done" THEN "0"
                                           ELSE IF subject.exc \in { "GetoptError", "CliError",
                                                                     "ExpectedRuntimeError" }
                                               THEN "1"
                                           ELSE "uncaught"]
    /\ last' = Idle
    /\ UNCHANGED <<file, reader, gens>>

NextStage ==
    Call \/ OpenIter \/ NextLine \/ Turn \/ Include \/ Break \/ Returns \/ CliExcept \/ Main

SpecStage == InitStage /\ [][NextStage]_vars

(* len() of the column accessor the caller holds and of the accessors the
   caller derives from it by filter() and holds in its place *)

\* filters on an accessor the caller holds
MaxFilters == 2

\* col = col.filter(name, f)
KeepDerived(name, f) ==
    /\ Len(subject.col.filter_by) < MaxFilters
    /\ subject' = [subject EXCEPT !.col = filter(subject.col, name, f)]
    /\ last' = [Idle EXCEPT !.op = "filter", !.arg = subject.col,
                            !.out = <<filter(subject.col, name, f)>>]
    /\ UNCHANGED <<file, reader, gens>>

NextLen ==
    \/ \E name \in { <<"c">>, <<"w">> }, f \in Preds : KeepDerived(name, f)
    \/ ListColumn(subject.col)
    \/ ColumnLength
    \/ EnsureLoaded

SpecLen == InitCol /\ [][NextLen]_vars

-----------------------------------------------------------------------------

(* Accessors built on the view the caller holds and on that view with one
   more column excluded *)

\* the column of HeaderV that is not name
Other(name) == IF name = <<"c">> THEN <<"v">> ELSE <<"c">>

\* view.column(name), or view.column(other).filter(name, f)
Accessor(view, name, f) ==
    IF f = {} THEN column(view, name, "id")
    ELSE filter(column(view, Other(name), "id"), name, f)

\* list(...) of the accessor built on the view held
ListOnView(name, f) ==
    /\ \E r \in { Drain(reader, IterColumn(Accessor(subject.view, name, f))) } :
           /\ reader' = r.R
           /\ last' = [Idle EXCEPT !.op = "list_on_view", !.arg = <<name, f>>,
                                   !.exc = r.exc, !.out = r.g.out, !.passes = 1]
    /\ UNCHANGED <<file, gens, subject>>

\* list(...) of the accessor built on view.strip(name)
ListOnStripped(name, f) ==
    /\ \E r \in { Drain(reader, IterColumn(Accessor(strip(subject.view, name), name, f))) } :
           /\ reader' = r.R
           /\ last' = [Idle EXCEPT !.op = "list_on_stripped", !.arg = <<name, f>>,
                                   !.exc = r.exc, !.out = r.g.out, !.passes = 1]
    /\ UNCHANGED <<file, gens, subject>>

NextExcluded ==
    \/ \E name \in { <<"c">>, <<"v">> }, f \in Preds \cup { {} } : ListOnView(name, f)
    \/ \E name \in { <<"c">>, <<"v">> }, f \in Preds \cup { {} } : ListOnStripped(name, f)
    \/ EnsureLoaded

SpecExcluded == InitCol /\ [][NextExcluded]_vars

-----------------------------------------------------------------------------

(* Properties of the line cache *)

IsPrefix(a, b) == Len(a) <= Len(b) /\ a = SubSeq(b, 1, Len(a))

Slots == 1..MaxGens

\* the frame in slot i has been started and found the buffer complete
Replaying(i) == gens[i] # Free /\ gens[i].mode = "replay"

\* the recording pass is started and has not run to its end
InFlight(R) == ~R.regular_file /\ R.file_accessed /\ ~R.cache_complete

\* C1: on an unseekable source, every pass that replays the buffer yields the
\* lines the recording pass yielded, in the same order, and raises nothing;
\* when it has returned it has yielded all of them
BufferedReplayEquivalence ==
    \A i \in Slots :
        Replaying(i) =>
            /\ gens[i].exc = ""
            /\ IsPrefix(gens[i].out, reader.yielded)
            /\ gens[i].done => gens[i].out = reader.yielded

\* C1 happens: two replays of a one-line recording have both returned
BufferedReplayTwice ==
    \E i, j \in Slots :
        /\ i # j
        /\ Replaying(i) /\ gens[i].done
        /\ Replaying(j) /\ gens[j].done
        /\ Len(reader.yielded) = 1
        /\ gens[i].out = reader.yielded

\* the step is the first next() on the frame in slot i
Starts(i) ==
    /\ gens[i] # Free /\ gens[i].mode = "new"
    /\ gens'[i] # Free /\ gens'[i].mode # "new"

\* C2: on an unseekable source, a pass started while the recording pass is
\* unfinished raises the usage error, and a pass started after the recording
\* pass has run to its end does not
SequencingViolation ==
    [][ \A i \in Slots :
            Starts(i) /\ ~reader.regular_file =>
                /\ InFlight(reader) => gens'[i].done /\ gens'[i].exc = UsageError
                /\ reader.cache_complete => gens'[i].exc = "" ]_vars

\* C2 happens: one pass was refused, and a later one replays
RefusedThenReplayed ==
    \E i, j \in Slots :
        /\ gens[i] # Free /\ gens[i].exc = UsageError
        /\ Replaying(j) /\ gens[j].out # <<>>

\* C3: on a seekable source every pass yields the lines of the file from the
\* first on, whatever the other passes do, all of them once it has returned,
\* and none raises
SeekableReplayEquivalence ==
    reader.regular_file =>
        \A i \in Slots :
            gens[i] # Free =>
                /\ gens[i].exc = ""
                /\ IsPrefix(gens[i].out, Lines)
                /\ gens[i].done => gens[i].out = Lines

\* C3 happens: a pass over a three-line file has returned while another that
\* was started stands after its first line
SeekableInterleaved ==
    /\ reader.regular_file
    /\ Len(file) = 3
    /\ \E i, j \in Slots :
           /\ gens[i] # Free /\ ~gens[i].done /\ Len(gens[i].out) = 1
           /\ gens[j] # Free /\ gens[j].done /\ gens[j].out = Lines

\* C5: ensure_loaded() called with no recording pass in flight returns with the
\* resource read once: an unseekable source is buffered whole and marked
\* complete; a call after one that has returned changes nothing of the reader
\* and reads nothing; and every pass started after it replays without error
EnsureLoadedOnce ==
    [][ /\ last'.op = "ensure_loaded" =>
               /\ ~InFlight(reader) =>
                      /\ last'.exc = ""
                      /\ reader'._len = Len(file)
                      /\ ~reader.regular_file =>
                             /\ reader'.cache_complete
                             /\ reader'.cache = Lines
                             /\ reader'.f = Len(file)
               /\ reader._len # None => last'.exc = "" /\ reader' = reader
        /\ \A i \in Slots :
               Starts(i) /\ ~reader.regular_file /\ reader._len # None =>
                   gens'[i].mode = "replay" /\ gens'[i].exc = "" ]_vars

\* C5 happens: a pass has replayed three buffered lines and ensure_loaded()
\* has returned once more without a pass of its own
EnsureLoadedAgain ==
    /\ last.op = "ensure_loaded" /\ last.exc = "" /\ last.passes = 0
    /\ ~reader.regular_file
    /\ Len(reader.cache) = 3
    /\ \E i \in Slots : Replaying(i) /\ gens[i].done

\* C6: len() of the reader and of any view returns the number of lines of the
\* resource; it takes one pass when the length is not known yet and none, with
\* the same value and the reader untouched, when it is
LengthCountsLines ==
    [][ last'.op \in { "len", "view_len" } /\ last'.exc = "" =>
            /\ last'.val = Len(file)
            /\ reader'._len = Len(file)
            /\ IF reader._len = None
                   THEN last'.passes = 1
                   ELSE /\ last'.passes = 0
                        /\ last'.val = reader._len
                        /\ reader' = reader ]_vars

\* C6 happens: the length of a view that excludes a column is returned from
\* the memo, three lines for a header and two rows
ViewLengthMemoized ==
    /\ last.op = "view_len" /\ last.arg # <<>>
    /\ last.exc = "" /\ last.passes = 0
    /\ last.val = 3

-----------------------------------------------------------------------------
(* Properties of the cache under views and column accessors *)

\* C4: whatever views and column accessors of the input are iterated, and
\* however their passes interleave, the buffer of an unseekable source holds
\* the lines read from the live stream so far, each once and in source order
StreamReadOnce ==
    ~reader.regular_file =>
        /\ reader.f <= Len(file)
        /\ reader.cache = SubSeq(Lines, 1, reader.f)

\* C4 happens: the three lines are buffered, a stripped view has been iterated
\* to its end and a filtered column accessor has yielded
SharedAcrossViews ==
    /\ ~reader.regular_file
    /\ Len(reader.cache) = 3
    /\ \E i, j \in Slots :
           /\ gens[i] # Free /\ gens[i].kind = "view" /\ gens[i].strip_columns # <<>>
           /\ gens[i].done /\ Len(gens[i].out) = 3
           /\ gens[j] # Free /\ gens[j].kind = "column" /\ gens[j].filters # <<>>
           /\ gens[j].out # <<>>

-----------------------------------------------------------------------------
(* Properties of whole iterations *)

\* the cells of the lines of the resource
Table == [ k \in 1..Len(file) |-> split(Lines[k]) ]

\* a header, and in every row a cell for every column of it
WellFormed == Len(file) >= 1 /\ \A k \in 2..Len(file) : Len(Table[k]) = Len(Table[1])

\* every pass yields the whole resource: it is seekable, or buffered whole
Replayable == reader.regular_file \/ reader.cache_complete

\* the view's header has the column
Visible(view, name) == In(name, Table[1]) /\ ~In(name, view.strip_columns)

\* the raw cell of the named column in line k
Cell(k, name) == Table[k][index(Table[1], name)]

\* the accessor's columns are in the header of its view and its decoder takes
\* every cell of the target column
Readable(col) ==
    /\ WellFormed
    /\ Visible(col.corpus, col.column)
    /\ \A j \in 1..Len(col.filter_by) : Visible(col.corpus, col.filter_by[j])
    /\ \A k \in 2..Len(file) : map_f(col.map_f, Cell(k, col.column)).exc = ""

\* the data lines, in file order, on whose raw cells every filter holds
Selected(col) ==
    SelectSeq([ k \in 1..(Len(file) - 1) |-> k + 1 ],
              LAMBDA k : \A j \in 1..Len(col.filter_by) :
                             pred(col.filters[j], Cell(k, col.filter_by[j])))

\* the decoded target cells of those lines
Decoded(col) ==
    [ n \in 1..Len(Selected(col)) |-> map_f(col.map_f, Cell(Selected(col)[n], col.column)).val ]

\* a second iteration of the accessor yields what the last one yielded
Again(col) ==
    With(Drain(reader, IterColumn(col)), LAMBDA r : r.exc = "" /\ r.g.out = last.out)

\* C7: over a seekable or a loaded source, an iteration of column(name) yields
\* the decoded cell of the named column of every data row, in file order and
\* without the header, and a second iteration yields the same
ColumnProjection ==
    last.op = "list_column" /\ last.arg.filter_by = <<>> /\ Replayable /\ Readable(last.arg) =>
        /\ last.exc = ""
        /\ last.out = [ k \in 1..(Len(file) - 1) |->
                          map_f(last.arg.map_f, Cell(k + 1, last.arg.column)).val ]
        /\ Again(last.arg)

\* C7 happens: the json-decoded column x of a stripped view over two buffered
\* rows
ColumnProjected ==
    /\ last.op = "list_column" /\ last.arg.filter_by = <<>>
    /\ last.arg.map_f = "json" /\ last.arg.corpus.strip_columns # <<>>
    /\ ~reader.regular_file /\ reader.cache_complete
    /\ last.exc = "" /\ last.out = <<1, 0>>

\* the accessor with its two filters chained in the other order
OtherOrder(col) ==
    filter(filter(column(col.corpus, col.column, col.map_f), col.filter_by[1], col.filters[1]),
           col.filter_by[2], col.filters[2])

\* C8: an accessor with two filters yields the decoded target cells of exactly
\* the data rows on whose raw cells both predicates hold, in file order, and
\* the accessor with the filters chained in the other order yields the same
FilterConjunction ==
    last.op = "list_column" /\ Len(last.arg.filter_by) = 2 /\ Replayable /\ Readable(last.arg) =>
        /\ last.exc = ""
        /\ last.out = Decoded(last.arg)
        /\ Again(OtherOrder(last.arg))

\* C8 happens: of two rows, the filters on y and on z keep one and drop one,
\* and y and z are not the column yielded
FilteredByTwo ==
    /\ last.op = "list_column" /\ Len(last.arg.filter_by) = 2
    /\ last.arg.filter_by[1] # last.arg.filter_by[2]
    /\ ~In(last.arg.column, last.arg.filter_by)
    /\ Len(file) = 3 /\ Readable(last.arg)
    /\ last.exc = "" /\ Len(last.out) = 1

\* C9: a view with two columns stripped yields the same lines, and fails the
\* same way if it fails, as the view with the two stripped in the other order
StripComposable ==
    last.op = "list_view" /\ Len(last.arg) = 2 /\ Replayable =>
        With(Drain(reader, IterView(strip(strip(Root, last.arg[1]), last.arg[2]))),
             LAMBDA r : r.exc = last.exc /\ r.g.out = last.out)

\* C9 happens: x and y stripped from a header and two rows leave z
StrippedTwo ==
    /\ last.op = "list_view" /\ last.arg = << <<"y">>, <<"x">> >>
    /\ WellFormed /\ last.exc = "" /\ Len(last.out) = 3
    /\ last.out[1] = <<"z">>

\* the cells of row whose column, by the header, is none of names
Without(row, header, names) ==
    LET kept == SelectSeq([ i \in 1..Len(row) |-> i ], LAMBDA i : ~In(header[i], names))
    IN  [ n \in 1..Len(kept) |-> row[kept[n]] ]

\* C10: a view yields the header without the excluded names and then every
\* row without the cells at the excluded columns' positions, the rest in their
\* order; a view that excludes nothing yields every line as it is
ViewProjection ==
    last.op = "list_view" /\ Replayable =>
        /\ last.arg = <<>> => last.exc = "" /\ last.out = Lines
        /\ last.arg # <<>> /\ WellFormed =>
               /\ last.exc = ""
               /\ last.out = [ k \in 1..Len(file) |-> join(Without(Table[k], Table[1], last.arg)) ]

\* C10 happens: y stripped from a header and two rows
StrippedOne ==
    /\ last.op = "list_view" /\ last.arg = << <<"y">> >>
    /\ WellFormed /\ Len(file) = 3
    /\ last.exc = "" /\ last.out[1] = <<"x", TAB, "z">>

-----------------------------------------------------------------------------
(* Properties of the methods of views and column accessors *)

\* C11: strip(name) returns a view that excludes name and what the view it is
\* called on excludes; the view it is called on and the line cache are as
\* they were, and the view iterated after the call yields, or raises, what it
\* did before
StripIsPure ==
    [][ last'.op = "strip" =>
            /\ subject' = subject
            /\ reader' = reader
            /\ last'.out[1].strip_columns = last'.arg \o subject.view.strip_columns
            /\ With(Drain(reader, IterView(subject.view)), LAMBDA before :
                   With(Drain(reader', IterView(subject'.view)), LAMBDA after :
                       after.exc = before.exc /\ after.g.out = before.g.out)) ]_vars

\* C11 happens: c is stripped from the view of a buffered header and two rows
StrippedFromHeld ==
    /\ last.op = "strip" /\ last.arg = << <<"c">> >>
    /\ subject.view = Root /\ last.out[1].strip_columns = << <<"c">> >>
    /\ ~reader.regular_file /\ reader.cache_complete /\ Len(file) = 3

\* the header of the accessor's view lacks its target or one of its filter
\* columns
Lacks(col) ==
    \/ ~Visible(col.corpus, col.column)
    \/ \E j \in 1..Len(col.filter_by) : ~Visible(col.corpus, col.filter_by[j])

\* C12: with no recording pass unfinished, an iteration of an accessor whose
\* target or filter column the header lacks raises ColumnNotFound, and has
\* yielded nothing before
MissingColumn ==
    [][ last'.op = "list_column" /\ ~InFlight(reader) /\ Len(file) >= 1 /\ Lacks(last'.arg) =>
            last'.exc = "ColumnNotFound" /\ last'.out = <<>> ]_vars

\* C12 happens: the target is a column of a header with two rows, the filter
\* column is not
MissingFilterColumn ==
    /\ last.op = "list_column" /\ Len(file) = 3
    /\ Visible(last.arg.corpus, last.arg.column)
    /\ last.arg.filter_by = << <<"w">> >>
    /\ last.exc = "ColumnNotFound" /\ last.out = <<>>

\* C13, as stated: over an input without lines, every iteration of a view,
\* whatever it excludes, and of a column accessor raises ExpectedRuntimeError
EmptyInputFails ==
    last.op \in { "list_view", "list_column" } /\ Len(file) = 0 =>
        last.exc = "ExpectedRuntimeError"

MatrixMethods == { "matrix", "dense_matrix", "sparse_matrix" }

\* C14: with no recording pass unfinished, matrix(), dense_matrix() and
\* sparse_matrix() on an accessor that yields no row, over an input that has a
\* header, raise EmptyColumnError and return no matrix
EmptyColumn ==
    /\ last.op \in MatrixMethods /\ ~InFlight(reader) /\ Len(file) >= 1
    /\ Readable(last.arg) /\ Selected(last.arg) = <<>>
    => last.exc = "EmptyColumnError" /\ last.out = <<>>

\* C14 happens: sparse_matrix() on the vectors labelled 1 of two rows
\* labelled 0
EmptyColumnOfTwoRows ==
    /\ last.op = "sparse_matrix" /\ Len(file) = 3
    /\ last.arg.filter_by = << <<"c">> >> /\ Selected(last.arg) = <<>>
    /\ last.exc = "EmptyColumnError"

\* the values matrix() samples: the first ten the accessor yields, or all
Sampled(col) ==
    SubSeq(Decoded(col), 1, IF Len(Decoded(col)) < SampleRows THEN Len(Decoded(col))
                            ELSE SampleRows)

\* the scalar entries of the vectors rows, and those that are 0
Scalars(rows) == UNION { { <<i, j>> : j \in 1..Len(rows[i]) } : i \in 1..Len(rows) }
ZeroScalars(rows) == { e \in Scalars(rows) : rows[e[1]][e[2]] = 0 }

\* every vector of the column has the two entries of the first
Rectangular(col) ==
    /\ Decoded(col) # <<>>
    /\ \A i \in 1..Len(Decoded(col)) : Len(Decoded(col)[i]) = 2

\* C15: the matrix that matrix() returns is sparse if more than half of the
\* scalar entries of the first ten rows, or of all rows if there are fewer,
\* are 0, and dense if half of them or fewer are; and it returns one for every
\* column of vectors of one length
DensityHeuristic ==
    last.op = "matrix" /\ Readable(last.arg) =>
        /\ last.exc = "" =>
               (last.out[1].enc = "sparse" <=>
                    2 * Cardinality(ZeroScalars(Sampled(last.arg)))
                        > Cardinality(Scalars(Sampled(last.arg))))
        /\ last.exc = "" => last.out[1].enc \in { "sparse", "dense" }
        /\ Rectangular(last.arg) /\ ~InFlight(reader) => last.exc = ""

\* C15 happens: exactly half of the entries of the first ten rows are 0, the
\* eleventh row has zeros only, and the matrix is dense
HalfZerosIsDense ==
    /\ last.op = "matrix" /\ last.exc = "" /\ Len(file) = 12
    /\ 2 * Cardinality(ZeroScalars(Sampled(last.arg))) = Cardinality(Scalars(Sampled(last.arg)))
    /\ Decoded(last.arg)[11] = <<0, 0>>
    /\ last.out[1].enc = "dense"

PeekConsumesNothing ==
    [][ /\ last'.op = "peek" /\ ~InFlight(reader)
        /\ Readable(subject.col) /\ Selected(subject.col) # <<>>
        => /\ last'.exc = ""
           /\ last'.out = << Decoded(subject.col)[1] >>
           /\ reader'.regular_file \/ reader'.cache_complete
           /\ \E r \in { Drain(reader', IterColumn(subject.col)) } :
                  /\ r.exc = ""
                  /\ r.g.out = Decoded(subject.col)
                  /\ r.g.out[1] = last'.out[1] ]_vars

\* C17 happens: peek() on a fresh unseekable source of two rows returned the
\* second row's vector, the first row being filtered out
PeekedSecondRow ==
    /\ last.op = "peek" /\ last.exc = "" /\ last.passes = 1
    /\ ~reader.regular_file /\ reader.cache_complete /\ Len(file) = 3
    /\ last.arg.filter_by # <<>> /\ Readable(last.arg)
    /\ Selected(last.arg) = <<3>>
    /\ last.out = << <<1, 1>> >>

\* C18, as stated: after an iteration of a column accessor has failed with
\* the missing-column error, a following iteration of the view or of a
\* column that exists, length() or ensure_loaded() on the same line cache
\* succeeds, whether the source is seekable or not
MissingColumnRecoverable ==
    [][ /\ last.op = "list_column" /\ last.exc = "ColumnNotFound"
        /\ \/ last'.op \in { "list_view", "len", "ensure_loaded" }
           \/ last'.op = "list_column" /\ ~Lacks(last'.arg)
        => last'.exc = "" ]_vars

\* C19: the line cache of a seekable resource is never buffered: whatever
\* was iterated, counted, loaded, stripped, peeked or turned into a matrix,
\* its buffer is empty and its complete and accessed flags are unset
SeekableNeverBuffered ==
    reader.regular_file =>
        /\ reader.cache = <<>>
        /\ ~reader.cache_complete
        /\ ~reader.file_accessed

\* C19 happens: a matrix was built from a seekable file of two rows whose
\* lines had been counted before
SeekableAfterMatrix ==
    /\ reader.regular_file /\ Len(file) = 3 /\ reader._len = 3
    /\ last.op = "matrix" /\ last.exc = "" /\ last.arg._len = 2

(***************************************************************************)
(* Lifecycle of the line cache                                             *)
(***************************************************************************)

\* 0 not started, 1 recording, 2 complete
Phase(R) == IF R.cache_complete THEN 2 ELSE IF R.file_accessed THEN 1 ELSE 0

\* the iteration in slot i is the recording pass, not yet finished
Recording(i) == gens[i] # Free /\ gens[i].mode = "record" /\ ~gens[i].done

\* C20: on an unseekable source the line cache only moves from not started
\* to recording to complete and never back; its buffer only grows at the end,
\* only by the one recording pass (an iteration that records, or a length()
\* or ensure_loaded() that starts with nothing read), and is never changed
\* once it is complete
CacheLifecycle ==
    [][ ~reader.regular_file =>
            /\ Phase(reader') >= Phase(reader)
            /\ reader'.cache_complete => reader'.file_accessed
            /\ IsPrefix(reader.cache, reader'.cache)
            /\ reader.cache_complete => reader'.cache = reader.cache
            /\ Cardinality({ i \in Slots : Recording(i) }) <= 1
            /\ reader'.cache # reader.cache =>
                   \/ Phase(reader) = 0
                   \/ /\ Phase(reader) = 1
                      /\ \E i \in Slots : Recording(i) /\ gens'[i] # gens[i] ]_vars

\* C20 happens: the buffer of two lines or more is complete and one
\* iteration replays it while another has been started on it
ReplayAfterComplete ==
    /\ ~reader.regular_file /\ reader.cache_complete /\ Len(reader.cache) >= 2
    /\ \E i, j \in Slots :
           /\ i # j
           /\ gens[i] # Free /\ gens[i].mode = "replay" /\ gens[i].i >= 1
           /\ gens[j] # Free /\ gens[j].mode = "replay"

(***************************************************************************)
(* Properties of the stream adapter                                        *)
(***************************************************************************)

\* the codec a name asks for by its last characters
CodecOf(name) ==
    LET n == Len(name)
        tail(k) == IF n >= k THEN SubSeq(name, n - k + 1, n) ELSE <<>>
    IN  IF tail(3) = <<".", "g", "z">> THEN "gzip"
        ELSE IF tail(4) = <<".", "b", "z", "2">> THEN "bz2"
        ELSE IF tail(3) = <<".", "x", "z">> THEN "lzma"
        ELSE "open"

\* C21: a direction other than in and out is rejected with nothing opened;
\* the name - gives standard input or output with nothing opened; any other
\* name is opened once, with gzip, bz2 or xz when it ends in .gz, .bz2 or
\* .xz and as plain text otherwise, for reading or writing by the direction
CodecSelection ==
    last.op \in { "open", "OutputFile", "CachingFileReader" } =>
        LET filename == last.arg[1]
            direction == last.arg[2]
            r == last.out[1]
        IN  IF direction \notin { "in", "out" }
                THEN last.exc = "Exception" /\ r.opened = <<>>
            ELSE IF filename = <<"-">>
                THEN /\ last.exc = "" /\ r.opened = <<>>
                     /\ r.handle = (IF direction = "in" THEN "stdin" ELSE "stdout")
            ELSE /\ last.exc = "" /\ r.handle = "file"
                 /\ r.opened = << [ codec |-> CodecOf(filename), filename |-> filename,
                                    mode |-> IF direction = "in" THEN "rt" ELSE "wt" ] >>

\* C21 happens: a name ending in .gz after an inner .xz was opened with gzip
\* for writing
OpenedGzipForWriting ==
    /\ last.op = "OutputFile" /\ last.exc = ""
    /\ last.arg[1] = <<"a", ".", "x", "z", ".", "g", "z">>
    /\ last.out[1].opened[1].codec = "gzip" /\ last.out[1].opened[1].mode = "wt"

(***************************************************************************)
(* Properties of the stages                                                *)
(***************************************************************************)

\* the documents of the k-th file of the directory
DocsOf(k) ==
    _split_doc(subject.dir[k].filename, subject.dir[k].n_tokens, subject.window,
               StepOf(subject.window, subject.step)).docs

\* the pairs cat emits for the k-th file: document n with document n + width
PairsOf(k, width) ==
    [ n \in 1..(IF Len(DocsOf(k)) > width THEN Len(DocsOf(k)) - width ELSE 0) |->
          << DocsOf(k)[n].doc_id, DocsOf(k)[n + width].doc_id >> ]

\* C25: with the window divisible by the step, cat psq-pairs emits for each
\* file, in turn, one pair for every document n that has a document
\* n + window/step in that file; the two documents of a pair are of the same
\* file, the second starts exactly one window of tokens after the first, and
\* they share no token
SequentialPages ==
    last.op = "psq-pairs" /\ last.exc = "" =>
        LET step == StepOf(subject.window, subject.step)
            width == subject.window \div step
        IN  /\ last.out = PairsOf(1, width) \o PairsOf(2, width)
            /\ \A p \in 1..Len(last.out) :
                   \E k \in 1..Len(subject.dir) :
                       \E m, n \in 1..Len(DocsOf(k)) :
                           /\ last.out[p] = << DocsOf(k)[m].doc_id, DocsOf(k)[n].doc_id >>
                           /\ n = m + width
                           /\ DocsOf(k)[n].i = DocsOf(k)[m].i + subject.window
                           /\ DocsOf(k)[m].tokens \cap DocsOf(k)[n].tokens = {}

\* C25 happens: a window of two steps over a file of three documents or
\* more gave the pair of its first and third document
PairedFirstAndThird ==
    /\ last.op = "psq-pairs" /\ last.exc = ""
    /\ subject.window = 2 /\ StepOf(subject.window, subject.step) = 1
    /\ Len(last.out) >= 2
    /\ last.out[1] = << <<"a", 1>>, <<"a", 3>> >>

\* C27: filter(name, f) returns a new accessor whose filters are the given
\* pair followed by those of the accessor it was called on, with the same
\* view, target column and decoder; the accessor it was called on and the
\* line cache are unchanged, and the accessor yields what it yielded before
FilterIsPure ==
    [][ last'.op = "filter" =>
            /\ subject' = subject
            /\ reader' = reader
            /\ last'.out[1].filter_by = << last'.arg[1] >> \o subject.col.filter_by
            /\ last'.out[1].filters = << last'.arg[2] >> \o subject.col.filters
            /\ last'.out[1].corpus = subject.col.corpus
            /\ last'.out[1].column = subject.col.column
            /\ last'.out[1].map_f = subject.col.map_f
            /\ With(Drain(reader, IterColumn(subject.col)), LAMBDA before :
                   With(Drain(reader', IterColumn(subject'.col)), LAMBDA after :
                       after.exc = before.exc /\ after.g.out = before.g.out)) ]_vars

\* C27 happens: a second filter derived from an accessor that has one, over
\* a stream of two rows read to its end
FilteredFromFiltered ==
    /\ last.op = "filter" /\ last.arg[1] = <<"c">>
    /\ Len(subject.col.filter_by) = 1 /\ Len(last.out[1].filter_by) = 2
    /\ ~reader.regular_file /\ reader.cache_complete /\ Len(file) = 3

\* C26: while the recording pass over an unseekable source is unfinished,
\* length() and ensure_loaded() of the line cache or view and length(),
\* peek() and matrix() of a column accessor raise the usage violation and
\* change neither the buffer, the flags, the memoized lengths nor the open
\* iterations; the recording pass, if still held, then runs to its end and
\* completes the buffer with every line of the input
RefusedWhileRecording ==
    [][ /\ InFlight(reader)
        /\ last'.op \in { "len", "view_len", "ensure_loaded", "column_len", "peek", "matrix" }
        => /\ last'.exc = UsageError
           /\ reader' = reader /\ subject' = subject /\ gens' = gens
           /\ \A i \in Slots :
                  Recording(i) =>
                      \E r \in { Drain(reader', gens'[i]) } :
                          /\ r.exc = ""
                          /\ r.R.cache_complete /\ r.R.cache = Lines ]_vars

\* C26 happens: matrix() was refused while the recording pass stood after
\* the first of two rows
MatrixRefusedMidway ==
    /\ last.op = "matrix" /\ last.exc = UsageError
    /\ Len(file) = 3 /\ Len(reader.cache) = 2 /\ ~reader.cache_complete
    /\ \E i \in Slots : Recording(i)

\* C30: column accessors of one view over an input that has a header,
\* iterated in lock step once the input is loaded, yield tuples whose components are the cells of one data row,
\* the n-th tuple those of the n-th row, and the loop ends after the last row
LockStep ==
    subject.loaded /\ Len(file) >= 1 =>
        /\ subject.state \in { "open", "done", "left" }
        /\ Len(subject.zipped) <= Len(file) - 1
        /\ \A n \in 1..Len(subject.zipped) :
               /\ Len(subject.zipped[n]) = Len(subject.cols)
               /\ \A i \in 1..Len(subject.cols) :
                      subject.zipped[n][i] =
                          map_f(subject.cols[i].map_f, Cell(n + 1, subject.cols[i].column)).val
        /\ subject.state = "done" => Len(subject.zipped) = Len(file) - 1

\* C30 happens: the two rows of a stream were zipped to the end
ZippedStream ==
    /\ subject.loaded /\ subject.state = "done" /\ ~reader.regular_file
    /\ Len(file) = 3 /\ Len(subject.zipped) = 2
    /\ subject.zipped[1] # subject.zipped[2]

\* C22, as stated: a missing-column, empty-input or empty-column failure of
\* the core in a stage run through cli() ends main() with exit status 1,
\* never as an exception that leaves main()
CoreFailuresExitOne ==
    /\ subject.status = "exit"
    /\ subject.origin \in { "ColumnNotFound", "ExpectedRuntimeError", "EmptyColumnError" }
    => subject.exit = "1"

\* C28, as stated: the cluster stage, whatever its METHOD and with or without
\* --split, run on an unseekable input with a data row or more, never starts
\* a pass over the line cache while the recording pass is unfinished and so
\* never raises the usage violation
ClusterOnePass ==
    subject.cmd = "cluster" /\ ~reader.regular_file /\ Len(file) >= 2 =>
        subject.origin # UsageError

\* C29: the embed, redim, desc and show stages never raise the usage
\* violation, whatever the method or subcommand, the input and its source:
\* the pass they start with runs to its end or ends the stage
StagesOnePass ==
    subject.cmd \in { "embed", "redim", "desc", "show" } =>
        /\ subject.origin # UsageError
        /\ last.exc # UsageError
        /\ subject.status = "run" /\ InFlight(reader) =>
               subject.pc = 1 /\ \A i \in DOMAIN gens : gens[i] = Free

\* C29 happens: redim id copied the two rows of a stream, the vectors read
\* in lock step with the lines, and main() returned
RedimIdOnStream ==
    /\ subject.cmd = "redim" /\ subject.method = "id" /\ ~reader.regular_file
    /\ subject.status = "exit" /\ subject.exit = "0"
    /\ Len(file) = 3 /\ Len(gens[2].out) = 2 /\ Len(gens[1].out) = 3

\* the cells of the n-th line of the input
Cells(n) == split(Lines[n])

\* the cell of the n-th line in the column called name
CellOf(n, name) == Cells(n)[index(Cells(1), name)]

\* the input has the columns embed reads
EmbedInput ==
    /\ Len(file) >= 1 /\ In(NameId, Cells(1))
    /\ subject.method # "" => In(NameContent, Cells(1))
    /\ subject.append => In(NameHighdim, Cells(1))

\* the included file has a row for every document id of the input
IncludeHasEveryId ==
    \A n \in 2..Len(file) :
        \E m \in 2..Len(subject.include[1]) : subject.include[1][m][1] = CellOf(n, NameId)

\* the decoded vector the included file holds for the document id
IncludedVector(id) ==
    LET f == subject.include[1]
    IN  json_loads(f[CHOOSE m \in 2..Len(f) : f[m][1] = id][2]).val

\* the line embed is to print for the n-th line of the input, given the
\* entries of its vector
RowWith(n, v) ==
    (IF subject.highdim_only THEN CellOf(n, NameId)
     ELSE join(Without(Cells(n), Cells(1), << NameHighdim >>)))
    \o << TAB >> \o json_dumps(DumpedNumbers(v))

\* C23, as stated: with --include FILE, FILE holding a row for every document
\* id of the input in whatever order, embed succeeds and every row written
\* carries the vector FILE holds for the id of that row
IncludeInAnyOrder ==
    /\ subject.cmd = "embed" /\ subject.include # <<>> /\ subject.status = "exit"
    /\ EmbedInput /\ IncludeHasEveryId
    => /\ subject.exit = "0"
       /\ Len(subject.written) = Len(file) - 1
       /\ \A n \in 1..Len(subject.written) :
              subject.written[n]
                  = RowWith(n + 1, IncludedVector(CellOf(n + 1, NameId))
                                   \o (IF subject.method = "" THEN <<>> ELSE MethodVector))

\* the included file lists the documents of the input row by row
IncludeInStep ==
    /\ Len(subject.include[1]) = Len(file)
    /\ \A n \in 2..Len(file) : subject.include[1][n][1] = CellOf(n, NameId)

\* C24, as stated: the vector written for every row of the input is the
\* concatenation of the numeric entries of the row's own highdim vector
\* (--append), of the vector the included FILE holds for the row, and of the
\* vector of the METHOD, in this order
VectorsConcatenated ==
    /\ subject.cmd = "embed" /\ subject.status = "exit" /\ EmbedInput
    /\ subject.include # <<>> => IncludeInStep
    => /\ subject.exit = "0"
       /\ Len(subject.written) = Len(file) - 1
       /\ \A n \in 1..Len(subject.written) :
              subject.written[n]
                  = RowWith(n + 1,
                            (IF subject.append THEN json_loads(CellOf(n + 1, NameHighdim)).val
                             ELSE <<>>)
                            \o (IF subject.include = <<>> THEN <<>>
                                ELSE json_loads(subject.include[1][n + 1][2]).val)
                            \o (IF subject.method = "" THEN <<>> ELSE MethodVector))

(***************************************************************************)
(* Properties of the memoized counts                                       *)
(***************************************************************************)

\* C36: over an unseekable source, whenever the memoized line count of the
\* line cache is set, the buffer is marked complete and the count equals the
\* number of buffered lines
MemoMatchesBuffer ==
    ~reader.regular_file /\ reader._len # None =>
        reader.cache_complete /\ reader._len = Len(reader.cache)

\* C36 happens: a recording pass held by the caller ran to its end, and a
\* later len() replayed the buffer and memoized the count of its two lines
MemoizedAfterRecording ==
    /\ ~reader.regular_file /\ reader._len = 2 /\ Len(reader.cache) = 2
    /\ last.op = "len" /\ last.exc = "" /\ last.passes = 1
    /\ \E i \in DOMAIN gens : gens[i] # Free /\ gens[i].kind = "reader" /\ gens[i].done

\* the recording pass over R is unfinished and none of the iterations gs is it
Abandoned(R, gs) ==
    /\ InFlight(R)
    /\ \A i \in DOMAIN gs : ~(gs[i] # Free /\ gs[i].mode = "record" /\ ~gs[i].done)

\* C35: on an unseekable source an unfinished recording pass is completed
\* only by its own iterator, resumed after the last line; once that iterator
\* is dropped, however many lines it handed out, the cache stays incomplete
\* whatever is done next, and iterate(), length() and ensure_loaded() raise
\* the usage violation
AbandonedStaysIncomplete ==
    [][ ~reader.regular_file =>
            /\ Phase(reader) = 1 /\ Phase(reader') = 2 =>
                   \E i \in Slots : /\ Recording(i) /\ gens'[i].done
                                    /\ reader.f = Len(file)
            /\ Abandoned(reader, gens) =>
                   /\ Abandoned(reader', gens')
                   /\ GenNext(reader, IterReader).exc = UsageError
                   /\ ReaderLen(reader).exc = UsageError
                   /\ ensure_loaded(reader).exc = UsageError ]_vars

\* C35 happens: the recording iterator handed out both lines of the stream
\* and was dropped before it was asked for one more, and length() was refused
DroppedAfterLastLine ==
    /\ Len(file) = 2 /\ reader.f = 2 /\ reader.cache = Lines
    /\ Abandoned(reader, gens)
    /\ last.op = "len" /\ last.exc = UsageError

\* the number of values one full iteration of col yields now
Count(col) == Len(Drain(reader, IterColumn(col)).g.out)

\* C37: over a fully loaded source, len() of a column accessor is the number
\* of values one full iteration of it yields, on the first call and on every
\* later one, and an accessor filter() returns starts without a count,
\* whatever count the accessor it came from has memoized
LengthIsCount ==
    /\ last.op = "column_len" /\ last.exc = "" =>
           /\ reader.regular_file \/ reader.cache_complete
           /\ last.val = Count(last.arg)
           /\ subject.col._len = last.val
    /\ last.op = "filter" => last.out[1]._len = None
    /\ (reader.regular_file \/ reader.cache_complete) /\ subject.col._len # None =>
           subject.col._len = Count(subject.col)

\* C37 happens: filter() was called on an accessor that had counted its two
\* rows, and the accessor returned, which yields one row, has no count
DerivedFromCounted ==
    /\ last.op = "filter" /\ last.arg._len = 2
    /\ subject.col = last.out[1] /\ subject.col._len = None
    /\ reader.cache_complete /\ Count(subject.col) = 1

(***************************************************************************)
(* Properties of excluded columns                                          *)
(***************************************************************************)

\* C38: with no recording pass unfinished, for a name the view held shows,
\* an iteration of view.strip(name).column(name), or of an accessor of
\* view.strip(name) filtered on name, raises ColumnNotFound and yields
\* nothing, while the same accessor built on the view itself raises nothing
ExcludedUnreadable ==
    [][ /\ last'.op \in { "list_on_view", "list_on_stripped" }
        /\ ~InFlight(reader) /\ Len(file) >= 1
        /\ Visible(subject.view, last'.arg[1])
        /\ last'.arg[2] # {} => Visible(subject.view, Other(last'.arg[1]))
        => IF last'.op = "list_on_stripped"
               THEN last'.exc = "ColumnNotFound" /\ last'.out = <<>>
               ELSE last'.exc = "" ]_vars

\* C38 happens: over two rows, the vectors filtered on the label column c
\* were refused on the view without c
FilteredOnExcluded ==
    /\ last.op = "list_on_stripped" /\ last.arg = << <<"c">>, { <<"1">> } >>
    /\ subject.view = Root /\ Len(file) = 3 /\ last.exc = "ColumnNotFound"

(***************************************************************************)
(* Properties of peek() and matrix() at the edges                          *)
(***************************************************************************)

\* C34, as stated: with no recording pass unfinished, peek() on an accessor
\* that yields no row, over an input that has a header, raises
\* EmptyColumnError, as matrix() does, and returns nothing
PeekEmptyColumn ==
    /\ last.op = "peek" /\ ~InFlight(reader) /\ Len(file) >= 1
    /\ Readable(last.arg) /\ Selected(last.arg) = <<>>
    => last.exc = "EmptyColumnError" /\ last.out = <<>>

\* C39, as stated: with no recording pass unfinished, matrix() on an accessor
\* that yields a row or more, all vectors of one length (be it zero), raises
\* nothing and returns a matrix, sparse or dense, with a row for every value
\* the accessor yields
MatrixOfAnyVectors ==
    /\ last.op = "matrix" /\ ~InFlight(reader) /\ Readable(last.arg)
    /\ Decoded(last.arg) # <<>>
    /\ \A i \in 1..Len(Decoded(last.arg)) :
           Len(Decoded(last.arg)[i]) = Len(Decoded(last.arg)[1])
    => /\ last.exc = ""
       /\ last.out[1].enc \in { "sparse", "dense" }
       /\ last.out[1].n_rows = Len(Decoded(last.arg))

(***************************************************************************)
(* Properties of the lines the stages write                                *)
(***************************************************************************)

\* the cells of the n-th line of the input without the cell of the column
\* the stage produces
KeptCells(n) == Without(Cells(n), Cells(1), << Produced(subject) >>)

\* C31: redim, cluster and embed without --highdim-only write the header of
\* the input without the column they produce and with its name appended
\* last, and then, row by row in the order of the input, the cells of the
\* row other than that column in their order, followed by one more cell; a
\* stage that succeeds has written one row for every row of the input
StageKeepsOtherColumns ==
    /\ subject.cmd \in { "redim", "cluster", "embed" } /\ ~subject.highdim_only
    /\ Len(file) >= 1
    => /\ subject.header \in { <<>>, << join(KeptCells(1) \o << Produced(subject) >>) >> }
       /\ Len(subject.written) <= Len(file) - 1
       /\ subject.written # <<>> => subject.header # <<>>
       /\ \A n \in 1..Len(subject.written) :
              /\ Len(split(subject.written[n])) = Len(KeptCells(n + 1)) + 1
              /\ SubSeq(split(subject.written[n]), 1, Len(KeptCells(n + 1)))
                     = KeptCells(n + 1)
       /\ subject.status = "exit" /\ subject.exit = "0"
              => subject.header # <<>> /\ Len(subject.written) = Len(file) - 1

\* C31 happens: cluster relabelled the two rows of an input that had a
\* cluster column, which is gone from the lines and written anew as the last
StageRewroteColumn ==
    /\ subject.cmd = "cluster" /\ subject.split = <<>> /\ subject.method = "kmeans"
    /\ subject.status = "exit" /\ subject.exit = "0"
    /\ Len(file) = 3 /\ In(NameCluster, Cells(1)) /\ Len(Cells(1)) = Len(HeaderS)
    /\ Len(subject.written) = 2
    /\ split(subject.header[1])[Len(HeaderS)] = NameCluster
    /\ split(subject.written[2])[Len(HeaderS)] = << "1" >>

\* the last cell of a line
LastCell(line) == split(line)[Len(split(line))]

\* the lines of the input, by their number, labelled with the cluster to split
SplitLines ==
    SelectSeq([ n \in 1..(Len(file) - 1) |-> n + 1 ],
              LAMBDA n : CellOf(n, NameCluster) = subject.split[1])

\* the k-th subcluster id of the method applied to the lowdim vectors of the
\* selected lines, in the order of the file
Subcluster(k) ==
    IF subject.method = "argmax"
        THEN argmax(json_loads(CellOf(SplitLines[k], NameLowdim)).val)
    ELSE Label(k)

\* C32: cluster --split CLUSTER writes, for a row whose label is not CLUSTER,
\* the label as it is, and for the k-th row labelled CLUSTER the label
\* CLUSTER.s_k, s_k the k-th subcluster id the method gives for the lowdim
\* vectors of the rows labelled CLUSTER; a stage that succeeds has done so for
\* every row
SplitRelabels ==
    /\ subject.cmd = "cluster" /\ subject.split # <<>>
    /\ Len(file) >= 1 /\ In(NameCluster, Cells(1)) /\ In(NameLowdim, Cells(1))
    => /\ \A n \in 1..Len(subject.written) :
              IF CellOf(n + 1, NameCluster) # subject.split[1]
                  THEN LastCell(subject.written[n]) = CellOf(n + 1, NameCluster)
              ELSE \E k \in 1..Len(SplitLines) :
                       /\ SplitLines[k] = n + 1
                       /\ LastCell(subject.written[n])
                              = subject.split[1] \o << "." >>
                                \o << DigitChar(Subcluster(k)) >>
       /\ subject.status = "exit" /\ subject.exit = "0"
              => Len(subject.written) = Len(file) - 1

\* C32 happens: of three lines the second row alone is labelled with the
\* cluster to split; the first kept its label and the second got the first
\* subcluster id
SplitSecondRow ==
    /\ subject.cmd = "cluster" /\ subject.split # <<>> /\ subject.method = "kmeans"
    /\ subject.status = "exit" /\ subject.exit = "0"
    /\ Len(file) = 3 /\ In(NameCluster, Cells(1)) /\ In(NameLowdim, Cells(1))
    /\ SplitLines = << 3 >>
    /\ Len(subject.written) = 2
    /\ LastCell(subject.written[1]) = << "0" >>
    /\ LastCell(subject.written[2]) = << "1", ".", "0" >>

\* C33, as stated: cluster --split CLUSTER with whatever method ends in the
\* CliError "Unable to split cluster" when the input has no cluster column,
\* and in the CliError "Cluster 'CLUSTER' does not exist" when no row is
\* labelled CLUSTER, without a data row written in either case
SplitErrorsReported ==
    /\ subject.cmd = "cluster" /\ subject.split # <<>> /\ subject.status = "exit"
    /\ Len(file) >= 1
    => /\ ~In(NameCluster, Cells(1))
              => /\ subject.exit = "1" /\ subject.exc = "CliError"
                 /\ subject.origin = "ColumnNotFound"
                 /\ subject.written = <<>>
       /\ In(NameCluster, Cells(1)) /\ In(NameLowdim, Cells(1)) /\ SplitLines = <<>>
              => /\ subject.exit = "1" /\ subject.exc = "CliError"
                 /\ subject.origin = "EmptyColumnError"
                 /\ subject.written = <<>>

====
